---- MODULE Spec2Model ----
(***************************************************************************)
(* A model of the camera acquisition and motion-detection pipeline of      *)
(* nutflix_lite: MotionDetector (nutflix_common/motion_utils.py), the      *)
(* capture backends LibCameraStillCapture / LibCameraCapture               *)
(* (libcamera_still_bridge.py, libcamera_bridge.py) and CameraManager      *)
(* (camera_manager.py).                                                    *)
(*                                                                         *)
(* Time is counted in whole seconds of the wall clock (time.time()); areas  *)
(* are whole pixel counts.                                                 *)
(***************************************************************************)
EXTENDS Integers, Sequences, FiniteSets, TLC

(***************************************************************************)
(* Bounds of the model.                                                    *)
(***************************************************************************)
MaxCooldown == 2
MaxTicks == 3
MaxFrameCount == 3
MaxFrames == 3
MaxThreads == 2
MaxReaders == 2
MaxFailures == 2
MaxReleases == 2
MaxGrabs == 2
MaxRegions == 2

Cameras == {"critter_cam", "nut_cam"}

\* time.time() at the first call: the epoch clock is far beyond any cooldown.
StartTime == MaxCooldown + 1
Times == StartTime..(StartTime + MaxTicks)


VARIABLES
    \* ---- MotionDetector ----
    now,                \* the wall clock, time.time()
    config,             \* MotionDetector.config
    bg_subtractors,     \* MotionDetector._bg_subtractors   (dict camera -> model)
    last_motion_times,  \* MotionDetector._last_motion_times (dict camera -> time)
    motion_events,      \* MotionDetector._motion_events     (dict camera -> list)
    frame_counts,       \* MotionDetector._frame_counts      (dict camera -> int)
    last_call,          \* the most recent detector call and what it returned
    \* ---- capture backends (LibCameraStillCapture / LibCameraCapture), per camera ----
    variant,            \* "still" (LibCameraStillCapture) or "vid" (LibCameraCapture)
    running,            \* self.running
    current_frame,      \* self.current_frame: NoFrame (None) or the frame held
    frame_count,        \* self.frame_count
    frame_lock,         \* self.frame_lock: who holds it
    temp_dir,           \* whether the directory made by tempfile.mkdtemp() exists
    process,            \* self.process (vid): "none", "alive" or "dead"
    threads,            \* the threads started on _capture_loop: position, frame in hand
    readers,            \* callers of read(): position, last result
    start_calls,        \* how many times start() was called
    release_pc,         \* position of a caller inside release()
    produced,           \* frames the camera has delivered so far (frame k is the k-th)
    fails,              \* consecutive failed loop iterations (saturating at MaxFailures)
    \* ---- CameraManager ----
    platform,           \* _is_raspberry_pi, LIBCAMERA_AVAILABLE, PICAMERA2_AVAILABLE
    has_callback,       \* whether a status_callback was given
    mgr,                \* "none": not constructed; "ready"; "failed": __init__ raised
    capture,            \* _critter_capture / _nut_capture: "None" or the backend's kind
    device,             \* whether the camera's backend holds its camera open
    worker,             \* whether a capture thread of the camera's backend is running
    has_frame,          \* whether the camera's backend has produced a frame yet
    grabs,              \* frames taken off the camera's stream by capture.read()
    release_ops,        \* backend release operations performed, per camera
    release_calls,      \* calls of CameraManager.release() made so far
    status_log,         \* the calls made to status_callback
    mgr_call,           \* the most recent CameraManager call and whether it raised
    \* ---- NutflixHeadless (main_headless.py) ----
    app_running,        \* NutflixHeadless.running
    monitor_thread,     \* where the monitor thread is in _monitor_loop
    frames,             \* the frames the monitor thread holds, from read_frames()
    main_thread,        \* where the main thread is in main() / stop()
    \* ---- video_feed (web/dashboard/app.py) ----
    generator,          \* the state of the generate_frames() generator
    consecutive_failures, \* its local consecutive_failures
    yielded,            \* the parts its latest iteration yielded
    failed_run          \* how many of its latest iterations in a row got no frame

motion_vars == <<now, config, bg_subtractors, last_motion_times, motion_events,
                 frame_counts, last_call>>

capture_vars == <<variant, running, current_frame, frame_count, frame_lock, temp_dir,
                  process, threads, readers, start_calls, release_pc, produced, fails>>

manager_vars == <<platform, has_callback, mgr, capture, device, worker, has_frame, grabs,
                  release_ops, release_calls, status_log, mgr_call>>

app_vars == <<app_running, monitor_thread, frames, main_thread, generator,
              consecutive_failures, yielded, failed_run>>

vars == <<motion_vars, capture_vars, manager_vars, app_vars>>

(***************************************************************************)
(* Python dicts: a function whose domain is the set of keys present.       *)
(***************************************************************************)
EmptyDict == [k \in {} |-> 0]

Get(d, k, default) == IF k \in DOMAIN d THEN d[k] ELSE default

Put(d, k, v) == [x \in (DOMAIN d) \cup {k} |-> IF x = k THEN v ELSE d[x]]

Pop_Keeps(d, k) == d

Pop(d, k) == [x \in (DOMAIN d) \ {k} |-> d[x]]

(***************************************************************************)
(* MotionConfig.  The MOG2 parameters are kept as one token: they only     *)
(* matter through the model they are baked into.                           *)
(***************************************************************************)
MotionConfig(threshold, cooldown, min_contour_area, max_contours_to_check, mog2) ==
    [threshold |-> threshold, cooldown |-> cooldown,
     min_contour_area |-> min_contour_area,
     max_contours_to_check |-> max_contours_to_check, mog2 |-> mog2]

\* The defaults of MotionConfig
DefaultThreshold == 500
DefaultCooldown == 2
MinContourArea == 100
MaxContoursToCheck == 50

\* Thresholds below, at and above the noise floor min_contour_area.
Thresholds == {50, MinContourArea, DefaultThreshold}

Configs ==
    { MotionConfig(t, cd, MinContourArea, MaxContoursToCheck, "mog2_a") :
        t \in Thresholds, cd \in 0..MaxCooldown }

(***************************************************************************)
(* Frames handed to process_frame.  A frame is None, a frame the           *)
(* preprocessing rejects (cv2 raises), or a frame for which background     *)
(* subtraction yields a mask whose external contours have the given areas  *)
(* (in the order cv2.findContours returns them).                           *)
(***************************************************************************)
\* Region areas at and one below each threshold.
Areas == UNION { {t - 1, t} : t \in Thresholds }

\* Masks with no region or a single region.
ContourLists == {<<>>} \cup { <<a>> : a \in Areas }

FrameShape == <<480, 640, 3>>

Frames ==
    {[kind |-> "none", contours |-> <<>>, shape |-> FrameShape],
     [kind |-> "bad", contours |-> <<>>, shape |-> FrameShape]}
    \cup {[kind |-> "ok", contours |-> cs, shape |-> FrameShape] : cs \in ContourLists}

(***************************************************************************)
(* MotionDetector._analyze_contours                                        *)
(***************************************************************************)
Truncate(s, n) == SubSeq(s, 1, IF Len(s) < n THEN Len(s) ELSE n)

RECURSIVE SeqMax(_)
SeqMax(s) ==
    IF Len(s) = 0 THEN 0
    ELSE LET m == SeqMax(Tail(s)) IN IF Head(s) > m THEN Head(s) ELSE m

RECURSIVE SeqSum(_)
SeqSum(s) == IF Len(s) = 0 THEN 0 ELSE Head(s) + SeqSum(Tail(s))

IsValidContour(cfg, area) == area >= cfg.min_contour_area

ValidAreas_FilterFirst(cfg, contours) ==
    Truncate(SelectSeq(contours, LAMBDA a : IsValidContour(cfg, a)),
             cfg.max_contours_to_check)

ValidAreas(cfg, contours) ==
    SelectSeq(Truncate(contours, cfg.max_contours_to_check),
              LAMBDA a : IsValidContour(cfg, a))

ExceedsThreshold_Strict(cfg, largest_area) == largest_area > cfg.threshold

ExceedsThreshold(cfg, largest_area) == largest_area >= cfg.threshold

AnalyzeContours(cfg, contours) ==
    LET areas == ValidAreas(cfg, contours) IN
    IF Len(contours) = 0 \/ Len(areas) = 0
    THEN [motion_detected |-> FALSE, count |-> 0, largest_area |-> 0, total_area |-> 0]
    ELSE [motion_detected |-> ExceedsThreshold(cfg, SeqMax(areas)),
          count |-> Len(areas),
          largest_area |-> SeqMax(areas),
          total_area |-> SeqSum(areas)]

(***************************************************************************)
(* MotionDetector._is_in_cooldown                                          *)
(***************************************************************************)
IsInCooldown_IgnoresLast(camera_id, current_time) ==
    (current_time - 0) < config.cooldown

IsInCooldown_AnyCamera(camera_id, current_time) ==
    \E c \in Cameras : (current_time - Get(last_motion_times, c, 0)) < config.cooldown

IsInCooldown(camera_id, current_time) ==
    (current_time - Get(last_motion_times, camera_id, 0)) < config.cooldown

(***************************************************************************)
(* MotionDetector._record_motion_event                                     *)
(***************************************************************************)
MaxEvents == 100

MotionEvent(camera_id, timestamp, info, shape) ==
    [camera_id |-> camera_id, timestamp |-> timestamp,
     contour_count |-> info.count,
     largest_contour_area |-> info.largest_area,
     frame_shape |-> <<shape[2], shape[1]>>]

LastN_All(s, n) == s

LastN(s, n) == IF Len(s) > n THEN SubSeq(s, Len(s) - n + 1, Len(s)) ELSE s

RecordedEvents_NotAppended(events, event) == events

RecordedEvents(events, event) == LastN(Append(events, event), MaxEvents)

NewBackgroundModel == [params |-> config.mog2, applied |-> 0]

(***************************************************************************)
(* MotionDetector.__init__                                                 *)
(***************************************************************************)
NoCall == [op |-> "init"]

MotionInit ==
    /\ now = StartTime
    /\ config \in Configs
    /\ bg_subtractors = EmptyDict
    /\ last_motion_times = EmptyDict
    /\ motion_events = EmptyDict
    /\ frame_counts = EmptyDict
    /\ last_call = NoCall

\* The clock moves on between calls.
TickUntil(horizon) ==
    /\ now < horizon
    /\ now' = now + 1
    /\ last_call' = [op |-> "tick"]
    /\ UNCHANGED <<config, bg_subtractors, last_motion_times, motion_events,
                   frame_counts>>

Tick == TickUntil(StartTime + MaxTicks)

\* process_frame: "except Exception as e: logger.error(...); return False"
ProcessRaises_Propagates(threw) == threw

ProcessRaises(threw) == FALSE

\* What a process_frame call did: raised is whether its processing threw, escaped
\* whether the exception left process_frame, ret what it returned.
ProcessFrameCall(camera_id, frame, raised, ret) ==
    [op |-> "process_frame", camera_id |-> camera_id, frame |-> frame,
     raised |-> raised, escaped |-> ProcessRaises(raised), ret |-> ret]

(***************************************************************************)
(* MotionDetector.process_frame, with _get_or_create_bg_subtractor,        *)
(* _preprocess_frame, the model update, _analyze_contours and              *)
(* _record_motion_event.                                                   *)
(***************************************************************************)
ProcessFrame(camera_id, frame) ==
    /\ UNCHANGED <<now, config>>
    /\ IF frame.kind = "none"
       THEN /\ last_call' = ProcessFrameCall(camera_id, frame, FALSE, FALSE)
            /\ UNCHANGED <<bg_subtractors, last_motion_times, motion_events,
                           frame_counts>>
       ELSE
       LET counted == Put(frame_counts, camera_id, Get(frame_counts, camera_id, 0) + 1) IN
       IF IsInCooldown(camera_id, now)
       THEN /\ frame_counts' = counted
            /\ last_call' = ProcessFrameCall(camera_id, frame, FALSE, FALSE)
            /\ UNCHANGED <<bg_subtractors, last_motion_times, motion_events>>
       ELSE
       LET create == camera_id \notin DOMAIN bg_subtractors
           bg1 == IF create THEN Put(bg_subtractors, camera_id, NewBackgroundModel)
                  ELSE bg_subtractors
           last1 == IF create THEN Put(last_motion_times, camera_id, 0)
                    ELSE last_motion_times
           events1 == IF create THEN Put(motion_events, camera_id, <<>>)
                      ELSE motion_events
           counted1 == IF create THEN Put(counted, camera_id, 0) ELSE counted
       IN
       IF frame.kind = "bad"
       THEN \* cv2.cvtColor raises: caught, logged, "no motion"
            /\ bg_subtractors' = bg1
            /\ last_motion_times' = last1
            /\ motion_events' = events1
            /\ frame_counts' = counted1
            /\ last_call' = ProcessFrameCall(camera_id, frame, TRUE, FALSE)
       ELSE
       LET bg2 == [bg1 EXCEPT ![camera_id].applied = @ + 1]
           info == AnalyzeContours(config, frame.contours)
       IN
       /\ bg_subtractors' = bg2
       /\ frame_counts' = counted1
       /\ IF info.motion_detected
          THEN /\ motion_events' =
                    [events1 EXCEPT ![camera_id] =
                        RecordedEvents(@, MotionEvent(camera_id, now, info, frame.shape))]
               /\ last_motion_times' = Put(last1, camera_id, now)
               /\ last_call' = ProcessFrameCall(camera_id, frame, FALSE, TRUE)
          ELSE /\ motion_events' = events1
               /\ last_motion_times' = last1
               /\ last_call' = ProcessFrameCall(camera_id, frame, FALSE, FALSE)

(***************************************************************************)
(* MotionDetector.reset_camera / reset_all / update_config                 *)
(***************************************************************************)
ResetCamera(camera_id) ==
    /\ bg_subtractors' = Pop(bg_subtractors, camera_id)
    /\ last_motion_times' = Pop(last_motion_times, camera_id)
    /\ motion_events' = Pop(motion_events, camera_id)
    /\ frame_counts' = Pop(frame_counts, camera_id)
    /\ last_call' = [op |-> "reset_camera", camera_id |-> camera_id,
                     dropped |-> Len(Get(motion_events, camera_id, <<>>))]
    /\ UNCHANGED <<now, config>>

ResetAll ==
    /\ bg_subtractors' = EmptyDict
    /\ last_motion_times' = EmptyDict
    /\ motion_events' = EmptyDict
    /\ frame_counts' = EmptyDict
    /\ last_call' = [op |-> "reset_all"]
    /\ UNCHANGED <<now, config>>

\* update_config: self._bg_subtractors.clear()
ModelsAfterUpdate_Kept(models) == models

ModelsAfterUpdate(models) == EmptyDict

UpdateConfig(new_config) ==
    /\ config' = new_config
    /\ bg_subtractors' = ModelsAfterUpdate(bg_subtractors)
    /\ last_call' = [op |-> "update_config"]
    /\ UNCHANGED <<now, last_motion_times, motion_events, frame_counts>>

(***************************************************************************)
(* The capture backends.  LibCameraStillCapture shells out to              *)
(* libcamera-still once per frame; LibCameraCapture reads frames from the  *)
(* pipe of one libcamera-vid subprocess.  Both publish into current_frame  *)
(* under frame_lock from a thread running _capture_loop.                   *)
(***************************************************************************)
Threads == 1..MaxThreads
Readers == 1..MaxReaders

NoFrame == 0

Free == [kind |-> "free", id |-> 0]
HeldByThread(t) == [kind |-> "thread", id |-> t]
HeldByReader(r) == [kind |-> "reader", id |-> r]

Unborn == [pc |-> "unborn", frame |-> NoFrame]

\* A caller of read(): where it is, what its last read() returned, and whether
\* the capture loop had failed since the slot was last written when it returned.
IdleReader == [pc |-> "idle", ok |-> FALSE, frame |-> NoFrame, after_failure |-> FALSE]

\* LibCameraStillCapture.__init__ / LibCameraCapture.__init__
NewBackend(v) ==
    [variant |-> v, running |-> FALSE, current_frame |-> NoFrame, frame_count |-> 0,
     frame_lock |-> Free, temp_dir |-> TRUE, process |-> "none"]

CaptureInitFor(variants) ==
    /\ variant \in variants
    /\ running = [c \in Cameras |-> NewBackend(variant[c]).running]
    /\ current_frame = [c \in Cameras |-> NewBackend(variant[c]).current_frame]
    /\ frame_count = [c \in Cameras |-> NewBackend(variant[c]).frame_count]
    /\ frame_lock = [c \in Cameras |-> NewBackend(variant[c]).frame_lock]
    /\ temp_dir = [c \in Cameras |-> NewBackend(variant[c]).temp_dir]
    /\ process = [c \in Cameras |-> NewBackend(variant[c]).process]
    /\ threads = [c \in Cameras |-> [t \in Threads |-> Unborn]]
    /\ readers = [c \in Cameras |-> [r \in Readers |-> IdleReader]]
    /\ start_calls = [c \in Cameras |-> 0]
    /\ release_pc = [c \in Cameras |-> "idle"]
    /\ produced = [c \in Cameras |-> 0]
    /\ fails = [c \in Cameras |-> 0]

\* isOpened()
IsOpened(c) ==
    IF variant[c] = "still" THEN running[c]
    ELSE running[c] /\ process[c] = "alive"

LiveThreads(c) == {t \in Threads : threads[c][t].pc \notin {"unborn", "exited"}}

\* self.capture_thread: the thread the last start() made; is_alive()
CaptureThreadAlive(c) ==
    \E t \in LiveThreads(c) : \A u \in Threads : u > t => threads[c][u].pc = "unborn"

SetThread(c, t, pc, frame) ==
    threads' = [threads EXCEPT ![c][t] = [pc |-> pc, frame |-> frame]]

Inc(n, max) == IF n < max THEN n + 1 ELSE max

(***************************************************************************)
(* start().  Each call starts a new thread on _capture_loop.               *)
(*   still: a test capture first; if it fails nothing is started.          *)
(*   vid:   Popen, running = True, the thread, a 2 s sleep, then poll():   *)
(*          if the subprocess has already exited start() returns False     *)
(*          with running still True.                                       *)
(***************************************************************************)
\* The owner of a backend constructs it and calls start() on it once.
StartCallable_Again(c) == start_calls[c] < MaxThreads

StartCallable(c) == start_calls[c] = 0

\* start() itself: nothing in it looks at whether the backend is already started.
StartCall(c, outcome) ==
    /\ start_calls[c] < MaxThreads
    /\ release_pc[c] = "idle"
    /\ start_calls' = [start_calls EXCEPT ![c] = @ + 1]
    /\ \E t \in Threads :
        /\ threads[c][t].pc = "unborn"
        /\ \A u \in Threads : u < t => threads[c][u].pc # "unborn"
        /\ CASE outcome = "ok" ->
                  /\ variant[c] = "still" => temp_dir[c]
                  /\ running' = [running EXCEPT ![c] = TRUE]
                  /\ SetThread(c, t, "check", NoFrame)
                  /\ process' = [process EXCEPT ![c] =
                                    IF variant[c] = "vid" THEN "alive" ELSE @]
             [] outcome = "fail" ->
                  \* still: the test capture fails; vid: Popen raises
                  /\ UNCHANGED <<running, threads, process>>
             [] outcome = "died" ->
                  /\ variant[c] = "vid"
                  /\ running' = [running EXCEPT ![c] = TRUE]
                  /\ SetThread(c, t, "check", NoFrame)
                  /\ process' = [process EXCEPT ![c] = "dead"]
    /\ UNCHANGED <<variant, current_frame, frame_count, frame_lock, temp_dir, readers,
                   release_pc, produced, fails>>

\* start() as its owner calls it: once
Start(c, outcome) == StartCallable(c) /\ StartCall(c, outcome)

\* The libcamera-vid subprocess exits by itself.
ProcessExits(c) ==
    /\ process[c] = "alive"
    /\ process' = [process EXCEPT ![c] = "dead"]
    /\ UNCHANGED <<variant, running, current_frame, frame_count, frame_lock, temp_dir,
                   threads, readers, start_calls, release_pc, produced, fails>>

(***************************************************************************)
(* _capture_loop, one step at a time.                                      *)
(***************************************************************************)
\* while self.running  /  while self.running and self.process and poll() is None
LoopGuard_Ignores(c) == TRUE

LoopGuard(c) ==
    IF variant[c] = "still" THEN running[c]
    ELSE running[c] /\ process[c] = "alive"

ThreadCheck(c, t) ==
    /\ threads[c][t].pc = "check"
    /\ SetThread(c, t, IF LoopGuard(c) THEN "capture" ELSE "exited", NoFrame)
    /\ UNCHANGED <<variant, running, current_frame, frame_count, frame_lock, temp_dir,
                   process, readers, start_calls, release_pc, produced, fails>>

\* The capture delivers a frame: libcamera-still wrote a file cv2.imread can load,
\* or a whole YUV frame came down the pipe.
CaptureOk(c, t) ==
    /\ threads[c][t].pc = "capture"
    /\ produced[c] < MaxFrames
    /\ IF variant[c] = "vid" THEN process[c] = "alive" ELSE temp_dir[c]
    /\ produced' = [produced EXCEPT ![c] = @ + 1]
    /\ SetThread(c, t, "lock", produced[c] + 1)
    /\ UNCHANGED <<variant, running, current_frame, frame_count, frame_lock, temp_dir,
                   process, readers, start_calls, release_pc, fails>>

\* What the slot holds after an iteration that delivered no frame.
SlotAfterFailure_Cleared(slot) == NoFrame

SlotAfterFailure(slot) == slot

\* Where the loop goes after an iteration that delivered no frame:
\*   still: logs, sleeps 0.1 s and tries again;  vid: "continue".
AfterFailure(c) == IF variant[c] = "still" THEN "pace" ELSE "check"

\* Where the loop goes when the iteration raises:
\*   still: sleeps 0.5 s and tries again;  vid: "break".
AfterRaise_Exits(c) == "exited"

AfterRaise(c) == IF variant[c] = "still" THEN "backoff" ELSE "exited"

\* No frame: a non-zero return code, no file, an unreadable file, a short read.
CaptureFail(c, t) ==
    /\ threads[c][t].pc = "capture"
    /\ SetThread(c, t, AfterFailure(c), NoFrame)
    /\ current_frame' = [current_frame EXCEPT ![c] = SlotAfterFailure(@)]
    /\ fails' = [fails EXCEPT ![c] = Inc(@, MaxFailures)]
    /\ UNCHANGED <<variant, running, frame_count, frame_lock, temp_dir,
                   process, readers, start_calls, release_pc, produced>>

\* The iteration raises (subprocess.TimeoutExpired, an OSError, a cv2 error).
CaptureRaise(c, t) ==
    /\ threads[c][t].pc = "capture"
    /\ SetThread(c, t, AfterRaise(c), NoFrame)
    /\ current_frame' = [current_frame EXCEPT ![c] = SlotAfterFailure(@)]
    /\ fails' = [fails EXCEPT ![c] = Inc(@, MaxFailures)]
    /\ UNCHANGED <<variant, running, frame_count, frame_lock, temp_dir,
                   process, readers, start_calls, release_pc, produced>>

\* "with self.frame_lock:" blocks until the lock is free.
LockAvailable_Unchecked(c) == TRUE

LockAvailable_OnceRead(c) ==
    /\ frame_lock[c] = Free
    /\ current_frame[c] # NoFrame => \E r \in Readers : readers[c][r].frame = current_frame[c]

LockAvailable(c) == frame_lock[c] = Free

ThreadAcquire(c, t) ==
    /\ threads[c][t].pc = "lock"
    /\ LockAvailable(c)
    /\ frame_lock' = [frame_lock EXCEPT ![c] = HeldByThread(t)]
    /\ SetThread(c, t, "write", threads[c][t].frame)
    /\ UNCHANGED <<variant, running, current_frame, frame_count, temp_dir,
                   process, readers, start_calls, release_pc, produced, fails>>

\* self.current_frame = frame.copy()
ThreadWrite(c, t) ==
    /\ threads[c][t].pc = "write"
    /\ current_frame' = [current_frame EXCEPT ![c] = threads[c][t].frame]
    /\ SetThread(c, t, "count", threads[c][t].frame)
    /\ UNCHANGED <<variant, running, frame_count, frame_lock, temp_dir,
                   process, readers, start_calls, release_pc, produced, fails>>

\* self.frame_count += 1, and the end of the "with" block
ThreadCount(c, t) ==
    /\ threads[c][t].pc = "count"
    /\ frame_count' = [frame_count EXCEPT ![c] = @ + 1]
    /\ frame_lock' = [frame_lock EXCEPT ![c] = Free]
    /\ fails' = [fails EXCEPT ![c] = 0]
    /\ SetThread(c, t, IF variant[c] = "still" THEN "pace" ELSE "check", NoFrame)
    /\ UNCHANGED <<variant, running, current_frame, temp_dir,
                   process, readers, start_calls, release_pc, produced>>

\* time.sleep(0.1) after an iteration, time.sleep(0.5) after an exception
ThreadSleep(c, t) ==
    /\ threads[c][t].pc \in {"pace", "backoff"}
    /\ SetThread(c, t, "check", NoFrame)
    /\ UNCHANGED <<variant, running, current_frame, frame_count, frame_lock, temp_dir,
                   process, readers, start_calls, release_pc, produced, fails>>

ThreadStep(c, t) ==
    \/ ThreadCheck(c, t)
    \/ CaptureOk(c, t)
    \/ CaptureFail(c, t)
    \/ CaptureRaise(c, t)
    \/ ThreadAcquire(c, t)
    \/ ThreadWrite(c, t)
    \/ ThreadCount(c, t)
    \/ ThreadSleep(c, t)

(***************************************************************************)
(* read(): under frame_lock, (True, copy of current_frame) or (False, None)*)
(***************************************************************************)
ReadAcquire(c, r) ==
    /\ readers[c][r].pc = "idle"
    /\ LockAvailable(c)
    /\ frame_lock' = [frame_lock EXCEPT ![c] = HeldByReader(r)]
    /\ readers' = [readers EXCEPT ![c][r].pc = "locked"]
    /\ UNCHANGED <<variant, running, current_frame, frame_count, temp_dir,
                   process, threads, start_calls, release_pc, produced, fails>>

ReadReturn(c, r) ==
    /\ readers[c][r].pc = "locked"
    /\ readers' = [readers EXCEPT ![c][r] =
            [pc |-> "idle",
             ok |-> current_frame[c] # NoFrame,
             frame |-> current_frame[c],
             after_failure |-> current_frame[c] # NoFrame /\ fails[c] > 0]]
    /\ frame_lock' = [frame_lock EXCEPT ![c] = Free]
    /\ UNCHANGED <<variant, running, current_frame, frame_count, temp_dir,
                   process, threads, start_calls, release_pc, produced, fails>>

(***************************************************************************)
(* release()                                                               *)
(*   still: running = False; join the capture thread for at most 5 s;      *)
(*          remove the temp directory.                                     *)
(*   vid:   running = False; terminate the subprocess and wait for it;     *)
(*          remove the temp directory.  The thread is not joined.          *)
(***************************************************************************)
ReleaseBegin(c) ==
    /\ release_pc[c] = "idle"
    /\ running' = [running EXCEPT ![c] = FALSE]
    /\ process' = [process EXCEPT ![c] = IF @ = "alive" THEN "dead" ELSE @]
    /\ release_pc' = [release_pc EXCEPT ![c] = "join"]
    /\ UNCHANGED <<variant, current_frame, frame_count, frame_lock, temp_dir,
                   threads, readers, start_calls, produced, fails>>

\* join(timeout=5) returns when the thread has exited, or after 5 seconds
ReleaseEnd(c, timed_out) ==
    /\ release_pc[c] = "join"
    /\ \/ variant[c] = "vid"
       \/ ~CaptureThreadAlive(c)
       \/ timed_out
    /\ temp_dir' = [temp_dir EXCEPT ![c] = FALSE]
    /\ release_pc' = [release_pc EXCEPT ![c] = "idle"]
    /\ UNCHANGED <<variant, running, current_frame, frame_count, frame_lock,
                   process, threads, readers, start_calls, produced, fails>>

(***************************************************************************)
(* CameraManager.  The backends are seen from outside here: whether the    *)
(* camera is held open and whether a capture thread runs.                  *)
(***************************************************************************)
Platforms == [is_raspberry_pi : BOOLEAN, libcamera_available : BOOLEAN,
              picamera2_available : BOOLEAN]

\* CameraManager.__init__ and _initialize_cameras: the backend for both cameras
SelectBackend(p) ==
    LET use_libcamera == p.is_raspberry_pi /\ p.libcamera_available IN
    IF use_libcamera /\ p.picamera2_available THEN "picamera2"
    ELSE IF use_libcamera /\ p.libcamera_available THEN "still"
    ELSE "opencv"

ManagerInit ==
    /\ platform \in Platforms
    /\ has_callback \in BOOLEAN
    /\ mgr = "none"
    /\ capture = [c \in Cameras |-> "None"]
    /\ device = [c \in Cameras |-> FALSE]
    /\ worker = [c \in Cameras |-> FALSE]
    /\ has_frame = [c \in Cameras |-> FALSE]
    /\ grabs = [c \in Cameras |-> 0]
    /\ release_ops = [c \in Cameras |-> 0]
    /\ release_calls = 0
    /\ status_log = <<>>
    /\ mgr_call = [op |-> "none", raised |-> FALSE]

\* if self.status_callback: self.status_callback(camera, status)
Emit(log, camera, status) ==
    IF has_callback THEN Append(log, <<camera, status>>) ELSE log

\* The capture reference after an attempt to open a camera: the backend object is
\* assigned before it is started or probed; Picamera2(camera_num=...) raises
\* before the assignment when the camera cannot be claimed.
RefAfterOpen(kind, opened) ==
    IF opened \/ kind \in {"still", "opencv"} THEN kind ELSE "None"

\* The class both cameras' capture objects are made of: _initialize_cameras picks
\* one initializer, which builds CritterCam and NutCam alike.
BackendFor_PerCamera(c, p) == IF c = "nut_cam" THEN "opencv" ELSE SelectBackend(p)

BackendFor(c, p) == SelectBackend(p)

\* One camera's "try:" block in an initializer: the open, then the callback with
\* 'Ready'.  The block completes if the camera opened and the callback returned.
TryCompletes(opened, callback_raised) == opened /\ ~callback_raised

\* The callback calls of one camera's block: 'Ready' after the open; 'Error' from
\* the "except" when the open or the 'Ready' callback raised.
BlockLog(log, c, opened, callback_raised) ==
    LET log1 == IF opened THEN Emit(log, c, "Ready") ELSE log IN
    IF TryCompletes(opened, callback_raised) THEN log1 ELSE Emit(log1, c, "Error")

(***************************************************************************)
(* CameraManager.__init__: _initialize_picamera2 / _initialize_libcamera / *)
(* _initialize_opencv.  CritterCam first; NutCam only if CritterCam's      *)
(* block completed.  A block that does not complete raises RuntimeError    *)
(* out of the constructor.  opens says whether each camera can be opened,  *)
(* ready_throws whether the status callback raises when told 'Ready'.      *)
(***************************************************************************)
Construct(opens, ready_throws) ==
    /\ mgr = "none"
    /\ LET callback_raised == has_callback /\ ready_throws
           critter_ok == TryCompletes(opens["critter_cam"], callback_raised)
           tried_nut == critter_ok
           nut_ok == tried_nut /\ TryCompletes(opens["nut_cam"], callback_raised)
           log1 == BlockLog(status_log, "critter_cam", opens["critter_cam"], callback_raised)
           log2 == IF tried_nut
                   THEN BlockLog(log1, "nut_cam", opens["nut_cam"], callback_raised)
                   ELSE log1
           opened == [c \in Cameras |->
                        IF c = "critter_cam" THEN opens[c] ELSE tried_nut /\ opens[c]]
       IN
       /\ capture' = [c \in Cameras |->
                        IF c = "critter_cam" \/ tried_nut
                        THEN RefAfterOpen(BackendFor(c, platform), opens[c])
                        ELSE "None"]
       /\ device' = opened
       /\ worker' = [c \in Cameras |-> BackendFor(c, platform) = "still" /\ opened[c]]
       /\ status_log' = log2
       /\ mgr' = IF critter_ok /\ nut_ok THEN "ready" ELSE "failed"
       /\ mgr_call' = [op |-> "__init__", raised |-> ~(critter_ok /\ nut_ok),
                       opens |-> opens, callback_raised |-> callback_raised,
                       attempted |-> <<SelectBackend(platform)>>]
    /\ UNCHANGED <<platform, has_callback, has_frame, grabs, release_ops, release_calls>>

\* release(): "finally: self._critter_capture = None"
RefAfterRelease_Kept(ref) == ref

RefAfterRelease(ref) == "None"

\* release(): "except Exception as e: logger.error(...)" around _release_camera
ReleaseRaises_Propagates(threw) == threw

ReleaseRaises(threw) == FALSE

ReleaseOutcomes == {"released", "threw"}

\* _release_camera on one capture object: Picamera2 stop()/close(),
\* LibCameraStillCapture.release(), cv2.VideoCapture.release().  A release that
\* throws leaves the backend as it was.
ReleaseOne(c, outcome, st) ==
    IF st.capture[c] = "None" \/ st.aborted
    THEN st
    ELSE [capture |-> [st.capture EXCEPT ![c] = RefAfterRelease(@)],
          device |-> [st.device EXCEPT ![c] = IF outcome = "released" THEN FALSE ELSE @],
          worker |-> [st.worker EXCEPT ![c] = IF outcome = "released" THEN FALSE ELSE @],
          release_ops |-> [st.release_ops EXCEPT ![c] = @ + 1],
          aborted |-> ReleaseRaises(outcome = "threw"),
          raised |-> st.raised \/ ReleaseRaises(outcome = "threw")]

(***************************************************************************)
(* CameraManager.release(), also reached through cleanup() and __exit__.   *)
(***************************************************************************)
Release(via, outcomes) ==
    /\ mgr = "ready"
    /\ release_calls < MaxReleases
    /\ release_calls' = release_calls + 1
    /\ LET st0 == [capture |-> capture, device |-> device, worker |-> worker,
                   release_ops |-> release_ops, aborted |-> FALSE, raised |-> FALSE]
           st1 == ReleaseOne("critter_cam", outcomes["critter_cam"], st0)
           st2 == ReleaseOne("nut_cam", outcomes["nut_cam"], st1)
       IN
       /\ capture' = st2.capture
       /\ device' = st2.device
       /\ worker' = st2.worker
       /\ release_ops' = st2.release_ops
       /\ mgr_call' = [op |-> via, raised |-> st2.raised, outcomes |-> outcomes]
    /\ UNCHANGED <<platform, has_callback, mgr, has_frame, grabs, status_log>>

ReleaseEntries == {"release", "cleanup", "__exit__"}

(***************************************************************************)
(* The backend of an opened camera produces its first frame: the capture   *)
(* thread of libcamera-still fills current_frame; a Picamera2 or OpenCV    *)
(* camera has a frame ready to be grabbed.                                 *)
(***************************************************************************)
FrameArrives(c) ==
    /\ mgr = "ready"
    /\ device[c]
    /\ ~has_frame[c]
    /\ has_frame' = [has_frame EXCEPT ![c] = TRUE]
    /\ UNCHANGED <<platform, has_callback, mgr, capture, device, worker, grabs,
                   release_ops, release_calls, status_log, mgr_call>>

CameraNames == Cameras \cup {"porch_cam"}

\* capture = self._critter_capture / self._nut_capture, by camera name
CaptureOf(camera_name) == IF camera_name \in Cameras THEN capture[camera_name] ELSE "None"

\* The check is_camera_available makes on a capture object: Picamera2.started,
\* or isOpened() of LibCameraStillCapture (self.running) and cv2.VideoCapture.
BackendOpen(c) == device[c]

(***************************************************************************)
(* CameraManager.is_camera_available(camera_name)                          *)
(***************************************************************************)
IsCameraAvailable(camera_name, check_throws) ==
    /\ mgr = "ready"
    /\ LET ret == IF camera_name \notin Cameras THEN FALSE
                  ELSE IF CaptureOf(camera_name) = "None" THEN FALSE
                  ELSE IF check_throws THEN FALSE
                  ELSE BackendOpen(camera_name)
       IN mgr_call' = [op |-> "is_camera_available", raised |-> FALSE,
                       camera_name |-> camera_name, ret |-> ret]
    /\ UNCHANGED <<platform, has_callback, mgr, capture, device, worker, has_frame,
                   grabs, release_ops, release_calls, status_log>>

\* What a read of the camera's backend can do: hand over a frame (only once it has
\* one), report that it has none, or throw.  LibCameraStillCapture.read() returns
\* its slot, so it reports "none" only while the slot is empty.
ReadOutcomes == {"frame", "none", "throws"}

BackendReads(c, outcome) ==
    /\ outcome = "frame" => has_frame[c]
    /\ (outcome = "none" /\ capture[c] = "still") => ~has_frame[c]

\* _read_camera_frame: "except Exception as e: ... return None"
ReadRaises_Propagates(threw) == threw

ReadRaises(threw) == FALSE

\* Whether reading a frame from a capture object of this kind takes the frame off
\* the camera's stream: cv2.VideoCapture.read() and Picamera2.capture_array()
\* fetch the next frame from the device; LibCameraStillCapture.read() copies the
\* slot its capture thread fills.
TakesFromStream(kind) == kind \in {"opencv", "picamera2"}

\* _read_camera_frame(capture, camera_name): the frame, or "None"; raised is
\* whether the call raises, grabbed whether it took a frame off the stream.
ReadCameraFrame(c, outcome) ==
    IF outcome = "throws"
    THEN [frame |-> "None", raised |-> ReadRaises(TRUE), grabbed |-> FALSE]
    ELSE IF capture[c] \in {"still", "opencv"} /\ ~device[c]
    THEN [frame |-> "None", raised |-> FALSE, grabbed |-> FALSE]
    ELSE [frame |-> IF outcome = "frame" THEN "frame" ELSE "None", raised |-> FALSE,
          grabbed |-> outcome = "frame" /\ TakesFromStream(capture[c])]

\* Fewer than MaxGrabs frames have been taken off the streams, all cameras together
FewGrabs == grabs["critter_cam"] + grabs["nut_cam"] < MaxGrabs

\* The stream positions after the reads made of the cameras in cs
GrabsAfter(cs, outcomes) ==
    [c \in Cameras |->
        IF c \in cs /\ capture[c] # "None" /\ ReadCameraFrame(c, outcomes[c]).grabbed
        THEN grabs[c] + 1 ELSE grabs[c]]

\* The frame a read hands over: the next one of the stream, or the one in the slot
FrameNumber(c, got) ==
    IF got.frame = "None" THEN 0 ELSE IF got.grabbed THEN grabs[c] + 1 ELSE 1

\* cv2.cvtColor and cv2.imencode: JPEG bytes, ret False, or an exception
EncodeOutcomes == {"jpeg", "fails", "throws"}

\* get_latest_frame: "except Exception as e: ... return None"
LatestFrameRaises_Propagates(threw) == threw

LatestFrameRaises(threw) == FALSE

(***************************************************************************)
(* CameraManager.get_latest_frame(camera_name)                             *)
(***************************************************************************)
GetLatestFrame(camera_name, read_outcome, encode_outcome) ==
    /\ mgr = "ready"
    /\ camera_name \in Cameras => BackendReads(camera_name, read_outcome)
    \* no read is made for an unknown name, no encoding without a frame
    /\ camera_name \notin Cameras => read_outcome = "none"
    /\ read_outcome # "frame" => encode_outcome = "jpeg"
    /\ FewGrabs
    /\ grabs' = GrabsAfter({camera_name}, [c \in Cameras |-> read_outcome])
    /\ LET known == camera_name \in Cameras /\ CaptureOf(camera_name) # "None"
           got == IF known THEN ReadCameraFrame(camera_name, read_outcome)
                  ELSE [frame |-> "None", raised |-> FALSE]
           encoded == known /\ ~got.raised /\ got.frame # "None"
           threw == got.raised \/ (encoded /\ encode_outcome = "throws")
           ret == IF encoded /\ encode_outcome = "jpeg" THEN "jpeg" ELSE "None"
       IN mgr_call' = [op |-> "get_latest_frame", raised |-> LatestFrameRaises(threw),
                       camera_name |-> camera_name, ret |-> ret,
                       frame_no |-> IF ret = "jpeg" THEN FrameNumber(camera_name, got) ELSE 0,
                       read_outcome |-> read_outcome, encode_outcome |-> encode_outcome]
    /\ UNCHANGED <<platform, has_callback, mgr, capture, device, worker, has_frame,
                   release_ops, release_calls, status_log>>

\* read_frames: the NutCam block is a separate "if", entered whatever became of
\* the CritterCam block.
NutReadAttempted_OnlyAfterSuccess(critter_frame) == critter_frame # "None"

NutReadAttempted(critter_frame) == TRUE

\* read_frames, one camera's block:
\*   if capture: try: frame = _read_camera_frame(...); if frame is not None: store
\*               except Exception: log
FrameEntry(c, outcome, attempted) ==
    IF ~attempted \/ capture[c] = "None" THEN "None"
    ELSE LET got == ReadCameraFrame(c, outcome) IN
         IF got.raised THEN "None" ELSE got.frame

(***************************************************************************)
(* CameraManager.read_frames()                                             *)
(***************************************************************************)
ReadFrames(outcomes) ==
    /\ mgr = "ready"
    /\ \A c \in Cameras : BackendReads(c, outcomes[c])
    /\ FewGrabs
    /\ LET critter == FrameEntry("critter_cam", outcomes["critter_cam"], TRUE)
           nut == FrameEntry("nut_cam", outcomes["nut_cam"], NutReadAttempted(critter))
           attempted == {c \in Cameras : c = "critter_cam" \/ NutReadAttempted(critter)}
       IN /\ mgr_call' = [op |-> "read_frames", raised |-> FALSE,
                          ret |-> [c \in Cameras |->
                                     IF c = "critter_cam" THEN critter ELSE nut],
                          outcomes |-> outcomes]
          /\ grabs' = GrabsAfter(attempted, outcomes)
    /\ UNCHANGED <<platform, has_callback, mgr, capture, device, worker, has_frame,
                   release_ops, release_calls, status_log>>

(***************************************************************************)
(* Initial states in which a component is built and nothing has been asked *)
(* of it; a specification about one component leaves the others there.     *)
(***************************************************************************)
DefaultConfig ==
    MotionConfig(DefaultThreshold, DefaultCooldown, MinContourArea, MaxContoursToCheck,
                 "mog2_a")

MotionIdle ==
    /\ now = StartTime
    /\ config = DefaultConfig
    /\ bg_subtractors = EmptyDict
    /\ last_motion_times = EmptyDict
    /\ motion_events = EmptyDict
    /\ frame_counts = EmptyDict
    /\ last_call = NoCall

CaptureIdle == CaptureInitFor({[c \in Cameras |-> "still"]})

ManagerIdle ==
    /\ ManagerInit
    /\ platform = [is_raspberry_pi |-> FALSE, libcamera_available |-> FALSE,
                   picamera2_available |-> FALSE]
    /\ has_callback = FALSE

\* No application object and no video stream
AppIdle ==
    /\ app_running = FALSE
    /\ monitor_thread = "none"
    /\ frames = [c \in Cameras |-> "None"]
    /\ main_thread = "none"
    /\ generator = "none"
    /\ consecutive_failures = 0
    /\ yielded = <<>>
    /\ failed_run = 0

(***************************************************************************)
(* SpecCooldown: one detector with a fixed config, the clock, and          *)
(* process_frame calls for one camera id.                                  *)
(***************************************************************************)
InitCooldown == MotionInit /\ CaptureIdle /\ ManagerIdle /\ AppIdle

MotionOnly == UNCHANGED <<capture_vars, manager_vars, app_vars>>

\* The camera has had fewer than MaxFrameCount frames counted
FewFrames(c) == Get(frame_counts, c, 0) < MaxFrameCount

NextCooldown ==
    \/ Tick /\ MotionOnly
    \/ \E f \in Frames :
           FewFrames("critter_cam") /\ ProcessFrame("critter_cam", f) /\ MotionOnly

SpecCooldown == InitCooldown /\ [][NextCooldown]_vars

\* A frame whose mask holds a region that counts as motion under cfg: one of the
\* regions inspected is at least the noise floor and at least the threshold.
Qualifies(cfg, frame) ==
    /\ frame.kind = "ok"
    /\ \E i \in 1..Len(frame.contours) :
        /\ i <= cfg.max_contours_to_check
        /\ frame.contours[i] >= cfg.min_contour_area
        /\ frame.contours[i] >= cfg.threshold

EventLog(c) == Get(motion_events, c, <<>>)

EventsSpaced ==
    \A c \in DOMAIN motion_events :
        \A i, j \in 1..Len(motion_events[c]) :
            i < j => motion_events[c][j].timestamp - motion_events[c][i].timestamp
                        >= config.cooldown

\* The last recorded motion of camera c is less than the cooldown ago.
RecentMotion(c) ==
    /\ Len(EventLog(c)) > 0
    /\ now - EventLog(c)[Len(EventLog(c))].timestamp < config.cooldown

CooldownStep ==
    \A c \in Cameras :
        (/\ last_call'.op = "process_frame"
         /\ last_call'.camera_id = c
         /\ last_call'.frame.kind # "none"
         /\ ProcessFrame(c, last_call'.frame)) =>
            /\ RecentMotion(c) => /\ ~last_call'.ret
                                  /\ motion_events' = motion_events
            /\ last_call'.ret =>
                  /\ ~RecentMotion(c)
                  /\ Len(motion_events'[c]) = Len(EventLog(c)) + 1
                  /\ motion_events'[c][Len(EventLog(c)) + 1].timestamp = now
            /\ (~RecentMotion(c) /\ Qualifies(config, last_call'.frame)) => last_call'.ret

\* C1: cooldown invariant of process_frame.  For a fixed camera and config, the
\* recorded motion events of a camera are at least config.cooldown apart; a call
\* made less than cooldown after the last recorded motion returns false and records
\* nothing; a call that returns true records one event stamped with the time of the
\* call; a qualifying call made at least cooldown after the last recorded motion
\* returns true.
C1_CooldownInvariant == []EventsSpaced /\ [][CooldownStep]_vars

C1_Witness ==
    /\ last_call.op = "process_frame"
    /\ ~last_call.ret
    /\ ~last_call.raised
    /\ config.cooldown > 0
    /\ RecentMotion(last_call.camera_id)
    /\ Len(EventLog(last_call.camera_id)) >= 2

\* A process_frame step for camera c that gets past the None check and the cooldown
\* check with a mask holding exactly one region.
SingleRegionStep(c) ==
    /\ last_call'.op = "process_frame"
    /\ last_call'.camera_id = c
    /\ last_call'.frame.kind = "ok"
    /\ Len(last_call'.frame.contours) = 1
    /\ ProcessFrame(c, last_call'.frame)
    /\ ~RecentMotion(c)

\* C2 as claimed: for every threshold T, also one below min_contour_area, a mask
\* whose only region has area exactly T is motion and one of area T-1 is not.
C2_AreaBoundary_Claimed ==
    [][\A c \in Cameras :
        SingleRegionStep(c) =>
            LET area == last_call'.frame.contours[1] IN
            /\ area = config.threshold => last_call'.ret
            /\ area = config.threshold - 1 => ~last_call'.ret]_vars

\* C2, amended: a mask whose only region has area exactly T is motion when T is at
\* least min_contour_area and is not motion when T is below min_contour_area (the
\* region is dropped as noise); for every T a mask whose only region has area T-1
\* is not motion.
C2_AreaBoundary ==
    [][\A c \in Cameras :
        SingleRegionStep(c) =>
            LET area == last_call'.frame.contours[1] IN
            /\ area = config.threshold =>
                  (last_call'.ret <=> config.threshold >= config.min_contour_area)
            /\ area = config.threshold - 1 => ~last_call'.ret]_vars

C2_Witness ==
    /\ last_call.op = "process_frame"
    /\ last_call.frame.kind = "ok"
    /\ last_call.frame.contours = <<config.threshold>>
    /\ config.threshold > config.min_contour_area
    /\ last_call.ret

(***************************************************************************)
(* SpecManager: a CameraManager on any platform, constructed once, then    *)
(* released any number of times through release(), cleanup() or __exit__.  *)
(***************************************************************************)
InitManager == MotionIdle /\ CaptureIdle /\ ManagerInit /\ AppIdle

ManagerOnly == UNCHANGED <<motion_vars, capture_vars, app_vars>>

NextManager ==
    \/ \E opens \in [Cameras -> BOOLEAN], ready_throws \in BOOLEAN :
           Construct(opens, ready_throws) /\ ManagerOnly
    \/ \E c \in Cameras : FrameArrives(c) /\ ManagerOnly
    \/ \E camera_name \in CameraNames, check_throws \in BOOLEAN :
           IsCameraAvailable(camera_name, check_throws) /\ ManagerOnly
    \/ \E camera_name \in CameraNames, read_outcome \in ReadOutcomes,
          encode_outcome \in EncodeOutcomes :
           GetLatestFrame(camera_name, read_outcome, encode_outcome) /\ ManagerOnly
    \/ \E outcomes \in [Cameras -> ReadOutcomes] : ReadFrames(outcomes) /\ ManagerOnly
    \/ \E via \in ReleaseEntries, outcomes \in [Cameras -> ReleaseOutcomes] :
           Release(via, outcomes) /\ ManagerOnly

SpecManager == InitManager /\ [][NextManager]_vars

\* C3 as claimed: when the constructor raises because a camera could not be opened,
\* no backend it opened is still open and no capture thread it started still runs.
C3_InitRollback ==
    mgr = "failed" => \A c \in Cameras : ~device[c] /\ ~worker[c]

Released == mgr = "ready" /\ release_calls > 0

\* C4: shutdown idempotence.  Over any sequence of release() / cleanup() / __exit__
\* calls each opened backend gets exactly one release operation: none before the
\* first call, one after it, and still one after every later call; no call raises.
C4_ShutdownIdempotent ==
    /\ \A c \in Cameras : release_ops[c] = IF Released THEN 1 ELSE 0
    /\ Released => ~mgr_call.raised

C4_Witness ==
    /\ release_calls >= 2
    /\ mgr_call.op = "cleanup"
    /\ \A c \in Cameras : release_ops[c] = 1

\* C5: release() never raises.  When releasing one camera's backend throws, the
\* call still returns normally, both capture references are cleared and the other
\* camera's backend has been released.
C5_ReleaseNeverRaises ==
    mgr_call.op \in ReleaseEntries =>
        /\ ~mgr_call.raised
        /\ \A c \in Cameras : capture[c] = "None"
        /\ \A c \in Cameras :
              (release_calls = 1 /\ mgr_call.outcomes[c] = "threw") =>
                  \A d \in Cameras \ {c} :
                      release_ops[d] = 1 /\
                      (mgr_call.outcomes[d] = "released" => ~device[d])

C5_Witness ==
    /\ mgr_call.op = "release"
    /\ release_calls = 1
    /\ mgr_call.outcomes["critter_cam"] = "threw"
    /\ mgr_call.outcomes["nut_cam"] = "released"
    /\ device["critter_cam"]
    /\ ~device["nut_cam"]
    /\ capture["critter_cam"] = "None"

(***************************************************************************)
(* SpecCapture: one capture backend of either kind (libcamera-still or     *)
(* libcamera-vid) serving critter_cam: started once by its owner, read by  *)
(* concurrent callers, released at any time.                               *)
(***************************************************************************)
Cam == "critter_cam"

BackendChoices(kinds) ==
    {[c \in Cameras |-> IF c = Cam THEN v ELSE "still"] : v \in kinds}

InitCapture == MotionIdle /\ CaptureInitFor(BackendChoices({"still", "vid"})) /\ ManagerIdle
    /\ AppIdle

CaptureOnly == UNCHANGED <<motion_vars, manager_vars, app_vars>>

NextCapture ==
    \/ \E outcome \in {"ok", "fail", "died"} : Start(Cam, outcome) /\ CaptureOnly
    \/ ProcessExits(Cam) /\ CaptureOnly
    \/ \E t \in Threads : ThreadCheck(Cam, t) /\ CaptureOnly
    \/ \E t \in Threads : CaptureOk(Cam, t) /\ CaptureOnly
    \/ \E t \in Threads : CaptureFail(Cam, t) /\ CaptureOnly
    \/ \E t \in Threads : CaptureRaise(Cam, t) /\ CaptureOnly
    \/ \E t \in Threads : ThreadAcquire(Cam, t) /\ CaptureOnly
    \/ \E t \in Threads : ThreadWrite(Cam, t) /\ CaptureOnly
    \/ \E t \in Threads : ThreadCount(Cam, t) /\ CaptureOnly
    \/ \E t \in Threads : ThreadSleep(Cam, t) /\ CaptureOnly
    \/ \E r \in Readers : ReadAcquire(Cam, r) /\ CaptureOnly
    \/ \E r \in Readers : ReadReturn(Cam, r) /\ CaptureOnly
    \/ ReleaseBegin(Cam) /\ CaptureOnly
    \/ \E timed_out \in BOOLEAN : ReleaseEnd(Cam, timed_out) /\ CaptureOnly

SpecCapture == InitCapture /\ [][NextCapture]_vars

Returns(c, r) == readers[c][r].pc = "locked" /\ readers'[c][r].pc = "idle"

\* C6: latest-frame stability.  Once the slot holds a frame it never goes back to
\* None, whatever the capture loop does next (failed iterations included), and every
\* read() that returns from then on returns (True, frame).
C6_SlotNeverReverts ==
    [][\A c \in Cameras :
          current_frame[c] # NoFrame =>
              /\ current_frame'[c] # NoFrame
              /\ \A r \in Readers :
                    Returns(c, r) => readers'[c][r].ok /\ readers'[c][r].frame # NoFrame]_vars

C6_Witness ==
    \E r \in Readers :
        /\ readers[Cam][r].pc = "idle"
        /\ readers[Cam][r].ok
        /\ readers[Cam][r].after_failure
        /\ running[Cam]

\* C8: monotonic recency.  With the one capture thread start() makes, the frames
\* one reader is given never go back in production order: a read() returns the
\* frame the reader got last time or a later one.
C8_MonotonicRecency ==
    [][\A c \in Cameras, r \in Readers :
          (Returns(c, r) /\ readers[c][r].ok) =>
              readers'[c][r].ok /\ readers'[c][r].frame >= readers[c][r].frame]_vars

C8_Witness ==
    \E r \in Readers :
        /\ readers[Cam][r].pc = "locked"
        /\ readers[Cam][r].ok
        /\ readers[Cam][r].frame = 1
        /\ current_frame[Cam] = 3

InWriteSection(c, t) == threads[c][t].pc \in {"write", "count"}

InReadSection(c, r) == readers[c][r].pc = "locked"

\* C9: atomic slot update.  The write section (current_frame and frame_count) and
\* the read section never overlap and no two sections run at once; whenever the
\* lock is not held by the writer the slot is whole: frame_count counts exactly the
\* frames written, so current_frame and frame_count belong to the same write.
C9_AtomicSlot ==
    \A c \in Cameras :
        /\ \A t \in Threads : InWriteSection(c, t) <=> frame_lock[c] = HeldByThread(t)
        /\ \A r \in Readers : InReadSection(c, r) <=> frame_lock[c] = HeldByReader(r)
        /\ frame_lock[c].kind # "thread" => frame_count[c] = current_frame[c]

C9_Witness ==
    \E t \in Threads, r \in Readers :
        /\ InReadSection(Cam, r)
        /\ threads[Cam][t].pc = "lock"
        /\ current_frame[Cam] # NoFrame
        /\ threads[Cam][t].frame > current_frame[Cam]

\* C10 as claimed: after MaxFailures consecutive failed iterations the capture
\* loop makes no further attempt and the backend reports itself unavailable.
C10_BoundedRetry ==
    \A c \in Cameras :
        fails[c] >= MaxFailures =>
            /\ \A t \in Threads : threads[c][t].pc # "capture"
            /\ \A t \in Threads : threads[c][t].pc \in {"pace", "backoff"} => ~IsOpened(c)

(***************************************************************************)
(* SpecStillFair: the libcamera-still backend under a fair scheduler.      *)
(*   - the capture thread keeps being scheduled (WF on its steps) and gets *)
(*     frame_lock if it keeps asking for it (SF on the acquisition);       *)
(*   - the camera delivers a frame if the loop keeps asking (SF);          *)
(*   - a read() that holds frame_lock returns (WF).                        *)
(* One caller polls the backend with read(), as CameraManager.read_frames  *)
(* does; it competes with the capture thread for frame_lock.               *)
(***************************************************************************)
Poller == CHOOSE r \in Readers : TRUE

InitStill == MotionIdle /\ CaptureInitFor(BackendChoices({"still"})) /\ ManagerIdle
    /\ AppIdle

NextStill ==
    \/ \E outcome \in {"ok", "fail"} : Start(Cam, outcome) /\ CaptureOnly
    \/ \E t \in Threads : ThreadCheck(Cam, t) /\ CaptureOnly
    \/ \E t \in Threads : CaptureOk(Cam, t) /\ CaptureOnly
    \/ \E t \in Threads : CaptureFail(Cam, t) /\ CaptureOnly
    \/ \E t \in Threads : CaptureRaise(Cam, t) /\ CaptureOnly
    \/ \E t \in Threads : ThreadAcquire(Cam, t) /\ CaptureOnly
    \/ \E t \in Threads : ThreadWrite(Cam, t) /\ CaptureOnly
    \/ \E t \in Threads : ThreadCount(Cam, t) /\ CaptureOnly
    \/ \E t \in Threads : ThreadSleep(Cam, t) /\ CaptureOnly
    \/ ReadAcquire(Cam, Poller) /\ CaptureOnly
    \/ ReadReturn(Cam, Poller) /\ CaptureOnly
    \/ ReleaseBegin(Cam) /\ CaptureOnly
    \/ \E timed_out \in BOOLEAN : ReleaseEnd(Cam, timed_out) /\ CaptureOnly

SpecStillFair ==
    /\ InitStill
    /\ [][NextStill]_vars
    /\ \A t \in Threads : WF_vars(ThreadStep(Cam, t) /\ CaptureOnly)
    /\ \A t \in Threads : SF_vars(ThreadAcquire(Cam, t) /\ CaptureOnly)
    /\ \A t \in Threads : SF_vars(CaptureOk(Cam, t) /\ CaptureOnly)
    /\ WF_vars(ReadReturn(Cam, Poller) /\ CaptureOnly)

\* start() has returned True
Started(c) == running[c] /\ \E t \in Threads : threads[c][t].pc # "unborn"

Delivered(c) ==
    /\ produced[c] > 0
    /\ \A t \in Threads : threads[c][t].pc \notin {"lock", "write"}

\* C7: latest-frame liveness.  After start() succeeded the slot eventually holds a
\* frame, unless the backend is released first; and the slot is filled in the very
\* loop iteration in which the camera first delivers a frame.
C7_SlotEventuallyFilled ==
    /\ \A c \in Cameras : Started(c) ~> (current_frame[c] # NoFrame \/ ~running[c])
    /\ [](\A c \in Cameras : Delivered(c) => current_frame[c] # NoFrame)

C7_Witness ==
    \E t \in Threads :
        /\ running[Cam]
        /\ threads[Cam][t].pc = "count"
        /\ current_frame[Cam] = 1
        /\ fails[Cam] > 0

\* release() has returned at least once: only its last step removes the directory
ReleaseReturned(c) == release_pc[c] = "idle" /\ ~temp_dir[c]

\* C11 as claimed: stop-then-close ordering.  When a backend's release() has
\* returned, no capture thread of that backend is still running.
C11_StopThenClose ==
    \A c \in Cameras : ReleaseReturned(c) => LiveThreads(c) = {}

\* C12 as claimed: is_camera_available(camera) returns true only if the camera's
\* backend has produced at least one frame.
C12_AvailableImpliesFrame ==
    (mgr_call.op = "is_camera_available" /\ mgr_call.ret) =>
        /\ mgr_call.camera_name \in Cameras
        /\ has_frame[mgr_call.camera_name]

\* C13: graceful frame accessor.  get_latest_frame never raises, and it returns
\* JPEG bytes only for a known camera that has not been released, whose backend
\* has a frame, whose read handed the frame over and whose encoding succeeded; in
\* every other case (unknown name, no frame yet, failed or throwing read or
\* encoding, after release()) it returns None.
C13_GracefulLatestFrame ==
    mgr_call.op = "get_latest_frame" =>
        /\ ~mgr_call.raised
        /\ mgr_call.ret \in {"jpeg", "None"}
        /\ mgr_call.ret = "jpeg" <=>
              /\ mgr_call.camera_name \in Cameras
              /\ capture[mgr_call.camera_name] # "None"
              /\ device[mgr_call.camera_name]
              /\ has_frame[mgr_call.camera_name]
              /\ mgr_call.read_outcome = "frame"
              /\ mgr_call.encode_outcome = "jpeg"

C13_Witness ==
    /\ mgr_call.op = "get_latest_frame"
    /\ mgr_call.camera_name = "nut_cam"
    /\ capture["nut_cam"] = "still"
    /\ has_frame["nut_cam"]
    /\ mgr_call.read_outcome = "frame"
    /\ mgr_call.encode_outcome = "throws"
    /\ mgr_call.ret = "None"

\* C14: read isolation between cameras.  read_frames never raises and returns
\* both keys; each camera's entry is its frame exactly when that camera has not
\* been released and its own read handed a frame over, whatever the other
\* camera's read did (failed, threw or succeeded).
C14_ReadIsolation ==
    mgr_call.op = "read_frames" =>
        /\ ~mgr_call.raised
        /\ DOMAIN mgr_call.ret = Cameras
        /\ \A c \in Cameras :
              /\ mgr_call.ret[c] \in {"frame", "None"}
              /\ mgr_call.ret[c] = "frame" <=>
                    (capture[c] # "None" /\ mgr_call.outcomes[c] = "frame")

C14_Witness ==
    /\ mgr_call.op = "read_frames"
    /\ mgr_call.outcomes["critter_cam"] = "throws"
    /\ mgr_call.outcomes["nut_cam"] = "frame"
    /\ mgr_call.ret["critter_cam"] = "None"
    /\ mgr_call.ret["nut_cam"] = "frame"

(***************************************************************************)
(* SpecEventLog: a detector that has been running for a while.  The event  *)
(* log of critter_cam already holds MaxEvents - 2 .. MaxEvents events, one *)
(* every MaxCooldown seconds, MaxEvents frames have been counted, and more *)
(* frames arrive.                                                          *)
(***************************************************************************)
PastInfo == AnalyzeContours(DefaultConfig, <<DefaultThreshold>>)

PastEvent(c, i) == MotionEvent(c, i * MaxCooldown, PastInfo, FrameShape)

PastLog(c, n) == [i \in 1..n |-> PastEvent(c, i)]

LogLengths == {n \in 1..MaxEvents : n + 2 >= MaxEvents}

\* Frames with nothing in them and frames with one region at the default threshold
LogFrames ==
    {f \in Frames : f.kind = "ok" /\ f.contours \in {<<>>, <<DefaultThreshold>>}}

InitEventLog ==
    /\ config \in {cfg \in Configs : cfg.threshold = DefaultThreshold}
    /\ now = (MaxEvents + 1) * MaxCooldown
    /\ bg_subtractors = Put(EmptyDict, Cam, [params |-> config.mog2, applied |-> MaxEvents])
    /\ frame_counts = Put(EmptyDict, Cam, MaxEvents)
    /\ \E n \in LogLengths :
          /\ last_motion_times = Put(EmptyDict, Cam, n * MaxCooldown)
          /\ motion_events = Put(EmptyDict, Cam, PastLog(Cam, n))
    /\ last_call = NoCall
    /\ CaptureIdle
    /\ ManagerIdle
    /\ AppIdle

NextEventLog ==
    \/ TickUntil((MaxEvents + 1) * MaxCooldown + MaxTicks) /\ MotionOnly
    \/ \E f \in LogFrames :
           /\ Get(frame_counts, Cam, 0) < MaxEvents + MaxFrameCount
           /\ ProcessFrame(Cam, f)
           /\ MotionOnly

SpecEventLog == InitEventLog /\ [][NextEventLog]_vars

Chronological(log) ==
    \A i \in 1..Len(log) : i < Len(log) => log[i].timestamp <= log[i + 1].timestamp

LogBounded ==
    \A c \in Cameras : Len(EventLog(c)) <= MaxEvents /\ Chronological(EventLog(c))

\* A detection on a full log drops the oldest event, keeps the others in place
\* and puts the new event, stamped with the time of the call, last.
EvictionStep ==
    \A c \in Cameras :
        (/\ last_call'.op = "process_frame"
         /\ last_call'.camera_id = c
         /\ last_call'.ret
         /\ Len(EventLog(c)) = MaxEvents)
        => /\ Len(EventLog(c)') = MaxEvents
           /\ \A i \in 1..(MaxEvents - 1) : EventLog(c)'[i] = EventLog(c)[i + 1]
           /\ EventLog(c)'[MaxEvents].timestamp = now

\* C15: bounded event log.  Each camera's log never holds more than 100 events and
\* stays in chronological order; recording an event on a full log evicts the
\* oldest one and keeps the order of the rest.
C15_BoundedEventLog == []LogBounded /\ [][EvictionStep]_vars

C15_Witness ==
    /\ last_call.op = "process_frame"
    /\ last_call.ret
    /\ Len(EventLog(Cam)) = MaxEvents
    /\ EventLog(Cam)[1] = PastEvent(Cam, 2)
    /\ EventLog(Cam)[MaxEvents].timestamp = now

(***************************************************************************)
(* SpecDetector: one MotionDetector serving both cameras, with every       *)
(* operation of its interface: process_frame, reset_camera, reset_all and  *)
(* update_config, while the clock moves on.                                *)
(***************************************************************************)
DetectorConfigs ==
    {cfg \in Configs : cfg.threshold = DefaultThreshold /\ cfg.cooldown = DefaultCooldown}

\* Fewer than MaxFrameCount frames are counted, all cameras together
FewFramesInAll ==
    Get(frame_counts, "critter_cam", 0) + Get(frame_counts, "nut_cam", 0) < MaxFrameCount

\* No frame, a frame that cannot be processed, an empty scene, one region at the
\* threshold
ProbeFrames ==
    {f \in Frames : f.kind = "ok" => f.contours \in {<<>>, <<DefaultThreshold>>}}

InitDetector == MotionInit /\ config \in DetectorConfigs /\ CaptureIdle /\ ManagerIdle
    /\ AppIdle

NextDetector ==
    \/ Tick /\ MotionOnly
    \/ \E c \in Cameras, f \in ProbeFrames : FewFramesInAll /\ ProcessFrame(c, f) /\ MotionOnly
    \/ \E c \in Cameras : ResetCamera(c) /\ MotionOnly
    \/ ResetAll /\ MotionOnly
    \/ \E cfg \in DetectorConfigs : UpdateConfig(cfg) /\ MotionOnly

SpecDetector == InitDetector /\ [][NextDetector]_vars

\* The step is a process_frame call for camera c that was given a frame
FrameCall(c) ==
    /\ last_call'.op = "process_frame"
    /\ last_call'.camera_id = c
    /\ last_call'.frame.kind # "none"

FramesProcessed(c) == Get(frame_counts, c, 0)

\* C16 as claimed: unconditional frame counting.  Every process_frame call that
\* is given a frame adds exactly one to that camera's processed-frame counter.
C16_UnconditionalCount ==
    [][\A c \in Cameras : FrameCall(c) => FramesProcessed(c)' = FramesProcessed(c) + 1]_vars

\* C17 as claimed: event count matches detections.  A process_frame call that
\* returns true appends exactly one event to the camera's log, and a call that
\* returns false leaves the log as it was.
C17_EventPerDetection ==
    [][\A c \in Cameras :
          (last_call'.op = "process_frame" /\ last_call'.camera_id = c) =>
              IF last_call'.ret
              THEN /\ EventLog(c)' # <<>>
                   /\ EventLog(c)' =
                         LastN(Append(EventLog(c), EventLog(c)'[Len(EventLog(c)')]), MaxEvents)
              ELSE EventLog(c)' = EventLog(c)]_vars

\* The step is a process_frame call for camera c whose processing fails: no
\* frame, or a frame that makes the processing throw
FailedCall(c) ==
    /\ last_call'.op = "process_frame"
    /\ last_call'.camera_id = c
    /\ last_call'.frame.kind \in {"none", "bad"}

CooldownOver(c) == now - Get(last_motion_times, c, 0) >= config.cooldown

Recorded(log) == {log[i] : i \in 1..Len(log)}

\* The call before this one was a failed process_frame call for camera c
AfterFailedCall(c) ==
    /\ last_call.op = "process_frame"
    /\ last_call.camera_id = c
    /\ last_call.frame.kind \in {"none", "bad"}

\* C18: detector error containment.  A process_frame call whose processing fails
\* returns false, lets no exception out, records no event and starts no cooldown;
\* the next call for that camera is processed normally: outside cooldown it
\* returns true exactly when its frame holds a qualifying region.
C18_ErrorContainment ==
    [][\A c \in Cameras :
          /\ FailedCall(c) =>
                /\ ~last_call'.ret
                /\ ~last_call'.escaped
                /\ Recorded(EventLog(c)') \subseteq Recorded(EventLog(c))
                /\ CooldownOver(c) => CooldownOver(c)'
          /\ (AfterFailedCall(c) /\ FrameCall(c) /\ CooldownOver(c)) =>
                /\ ~last_call'.escaped
                /\ last_call'.ret = Qualifies(config, last_call'.frame)]_vars

C18_Witness ==
    \E c \in Cameras :
        /\ last_call.op = "process_frame"
        /\ last_call.camera_id = c
        /\ last_call.frame.kind = "bad"
        /\ last_call.raised
        /\ ~last_call.ret
        /\ Len(EventLog(c)) >= 1
        /\ CooldownOver(c)

Entry(d, k) == IF k \in DOMAIN d THEN <<d[k]>> ELSE <<>>

\* Everything the detector holds for camera c
CameraState(c) ==
    <<Entry(bg_subtractors, c), Entry(last_motion_times, c), Entry(motion_events, c),
      Entry(frame_counts, c)>>

\* C19: per-camera independence.  A process_frame call for camera A leaves the
\* background model, cooldown clock, event log and frame counter of every other
\* camera as they were, and its result depends on camera A alone: with a frame it
\* returns true exactly when A's own cooldown is over and the frame qualifies.
C19_CameraIndependence ==
    [][\A a \in Cameras :
          (last_call'.op = "process_frame" /\ last_call'.camera_id = a) =>
              /\ \A b \in Cameras \ {a} : CameraState(b)' = CameraState(b)
              /\ last_call'.ret = (CooldownOver(a) /\ Qualifies(config, last_call'.frame))]_vars

C19_Witness ==
    /\ last_call.op = "process_frame"
    /\ last_call.camera_id = "nut_cam"
    /\ last_call.ret
    /\ Len(EventLog("critter_cam")) >= 1
    /\ ~CooldownOver("critter_cam")
    /\ EventLog("nut_cam")[Len(EventLog("nut_cam"))].timestamp = now
    /\ EventLog("critter_cam")[Len(EventLog("critter_cam"))].timestamp < now

NoCameraState == <<<<>>, <<>>, <<>>, <<>>>>

\* The call before this one was reset_camera(c) or reset_all()
AfterReset(c) ==
    \/ last_call.op = "reset_camera" /\ last_call.camera_id = c
    \/ last_call.op = "reset_all"

\* C20: reset.  reset_camera(c) leaves camera c with no background model, no
\* events, no frames counted and no cooldown, and every other camera as it was;
\* reset_all() does so for all cameras; the next frame of a reset camera is
\* reported as motion when it qualifies.
C20_Reset ==
    [][/\ last_call'.op = "reset_camera" =>
             \A c \in Cameras :
                 IF c = last_call'.camera_id
                 THEN /\ CameraState(c)' = NoCameraState
                      /\ EventLog(c)' = <<>>
                      /\ FramesProcessed(c)' = 0
                      /\ CooldownOver(c)'
                 ELSE CameraState(c)' = CameraState(c)
       /\ last_call'.op = "reset_all" =>
             \A c \in Cameras : CameraState(c)' = NoCameraState /\ CooldownOver(c)'
       /\ \A c \in Cameras :
             (AfterReset(c) /\ FrameCall(c)) =>
                 last_call'.ret = Qualifies(config, last_call'.frame)]_vars

C20_Witness ==
    /\ last_call.op = "reset_camera"
    /\ last_call.camera_id = "critter_cam"
    /\ last_call.dropped >= 1
    /\ CameraState("critter_cam") = NoCameraState
    /\ Len(EventLog("nut_cam")) >= 1
    /\ ~CooldownOver("nut_cam")

(***************************************************************************)
(* SpecReconfig: one MotionDetector serving both cameras whose config is   *)
(* replaced while it runs: the default config, and one with a lower        *)
(* threshold, a shorter cooldown and other MOG2 parameters.                *)
(***************************************************************************)
SensitiveConfig ==
    MotionConfig(MinContourArea, 1, MinContourArea, MaxContoursToCheck, "mog2_b")

ReconfigConfigs == {DefaultConfig, SensitiveConfig}

\* One region at the lower threshold, one at the default threshold
ReconfigFrames ==
    {f \in Frames : f.kind = "ok" /\ f.contours \in {<<MinContourArea>>, <<DefaultThreshold>>}}

InitReconfig == MotionIdle /\ CaptureIdle /\ ManagerIdle /\ AppIdle

NextReconfig ==
    \/ Tick /\ MotionOnly
    \/ \E c \in Cameras, f \in ReconfigFrames :
           FewFramesInAll /\ ProcessFrame(c, f) /\ MotionOnly
    \/ \E cfg \in ReconfigConfigs : UpdateConfig(cfg) /\ MotionOnly

SpecReconfig == InitReconfig /\ [][NextReconfig]_vars

\* Every background model the detector holds was made with the current parameters
ModelsCurrent ==
    \A c \in DOMAIN bg_subtractors : bg_subtractors[c].params = config.mog2

ReconfigStep ==
    /\ last_call'.op = "update_config" => DOMAIN bg_subtractors' = {}
    /\ \A c \in Cameras :
          FrameCall(c) =>
              /\ last_call'.ret = (CooldownOver(c) /\ Qualifies(config, last_call'.frame))
              /\ (c \notin DOMAIN bg_subtractors /\ c \in DOMAIN bg_subtractors') =>
                    bg_subtractors'[c] = [params |-> config.mog2, applied |-> 1]
              /\ (c \in DOMAIN bg_subtractors /\ bg_subtractors'[c] # bg_subtractors[c]) =>
                    bg_subtractors[c].params = config.mog2

\* C21: update_config.  After update_config(new_config) the detector holds no
\* background model; every process_frame call from then on decides with the new
\* threshold and cooldown; the next call that updates a camera's model creates it
\* afresh with the new parameters, and a model that is fed a frame was always made
\* with the parameters of the current config.
C21_UpdateConfig == []ModelsCurrent /\ [][ReconfigStep]_vars

C21_Witness ==
    /\ config = SensitiveConfig
    /\ last_call.op = "process_frame"
    /\ last_call.camera_id = "critter_cam"
    /\ last_call.frame.contours = <<MinContourArea>>
    /\ last_call.ret
    /\ bg_subtractors["critter_cam"] = [params |-> "mog2_b", applied |-> 1]
    /\ "nut_cam" \in DOMAIN last_motion_times
    /\ "nut_cam" \notin DOMAIN bg_subtractors

\* Frames the camera's background model has been fed
FramesApplied(c) == Get(bg_subtractors, c, [applied |-> 0]).applied

\* C22 as claimed: cooldown suppresses event emission, not model updates.  A
\* process_frame call made inside the cooldown window with a usable frame returns
\* false and the camera's background model is still fed that frame.
C22_CooldownFeedsModel ==
    [][\A c \in Cameras :
          (FrameCall(c) /\ last_call'.frame.kind = "ok" /\ ~CooldownOver(c)) =>
              /\ ~last_call'.ret
              /\ FramesApplied(c)' = FramesApplied(c) + 1]_vars

\* The backend variants the platform signals allow, in order of preference
Preference(p) ==
    LET use_libcamera == p.is_raspberry_pi /\ p.libcamera_available IN
    IF use_libcamera /\ p.picamera2_available THEN <<"picamera2", "still", "opencv">>
    ELSE IF use_libcamera THEN <<"still", "opencv">>
    ELSE <<"opencv">>

\* C23 as claimed: backend selection with fallback.  The variants are attempted in
\* preference order, and when a camera cannot be opened initialization fails only
\* after every variant the platform allows has been attempted.
C23_FallbackSelection ==
    (mgr_call.op = "__init__" /\ ~mgr_call.callback_raised) =>
        /\ mgr_call.attempted[1] = Preference(platform)[1]
        /\ mgr_call.raised => mgr_call.attempted = Preference(platform)

\* C24: symmetric backend.  After a successful initialization critter_cam and
\* nut_cam are bound to capture objects of the same variant, the one selected for
\* the platform, until release() unbinds them; at no time are the two cameras
\* bound to different variants.
C24_SymmetricBackend ==
    mgr = "ready" =>
        /\ \A c, d \in Cameras :
              (capture[c] # "None" /\ capture[d] # "None") => capture[c] = capture[d]
        /\ release_calls = 0 => \A c \in Cameras : capture[c] = SelectBackend(platform)

C24_Witness ==
    /\ mgr = "ready"
    /\ release_calls = 0
    /\ platform.is_raspberry_pi /\ platform.libcamera_available
    /\ platform.picamera2_available
    /\ \A c \in Cameras : capture[c] = "picamera2" /\ device[c] /\ has_frame[c]

\* The status callback calls made in this step
NewStatusCalls == {status_log'[i] : i \in (Len(status_log) + 1)..Len(status_log')}

\* C25 as claimed: status callback on every availability transition.  Whenever a
\* camera's backend goes from closed to open or from open to closed and a callback
\* is set, the callback is called with that camera and 'Ready' or 'Error'
\* according to the new availability.
C25_CallbackOnTransition ==
    [][has_callback =>
          \A c \in Cameras :
              device'[c] # device[c] =>
                  <<c, IF device'[c] THEN "Ready" ELSE "Error">> \in NewStatusCalls]_vars

\* C26 as claimed: callback failure isolation.  When both cameras can be opened and
\* the status callback raises while reporting 'Ready', initialization succeeds,
\* both cameras are open and neither is reported as 'Error'.
C26_CallbackIsolation ==
    (/\ mgr_call.op = "__init__"
     /\ mgr_call.callback_raised
     /\ \A c \in Cameras : mgr_call.opens[c]) =>
        /\ mgr = "ready"
        /\ \A c \in Cameras : device[c]
        /\ \A i \in 1..Len(status_log) : status_log[i][2] # "Error"

\* C27 as claimed: the frame accessor is a pure read.  A get_latest_frame call
\* takes no frame off the backend's stream, and two successive calls for one
\* camera that both return a frame, with no frame produced in between, return the
\* same frame.
C27_PureRead ==
    [][mgr_call'.op = "get_latest_frame" =>
          /\ grabs' = grabs
          /\ (/\ mgr_call.op = "get_latest_frame"
              /\ mgr_call.camera_name = mgr_call'.camera_name
              /\ mgr_call.ret = "jpeg"
              /\ mgr_call'.ret = "jpeg"
              /\ has_frame' = has_frame) =>
                 mgr_call'.frame_no = mgr_call.frame_no]_vars

\* The capture thread holds frame k, fetched from the camera and not yet published
InHand(c, k) == \E t \in Threads : threads[c][t].pc \in {"lock", "write"} /\ threads[c][t].frame = k

\* No reader has been given frame k
Unread(c, k) == \A r \in Readers : readers[c][r].frame # k

\* A read() leaves the slot as it is; a write replaces what the slot held
SlotStep ==
    \A c \in Cameras :
        /\ \A r \in Readers : (readers'[c][r] # readers[c][r]) => current_frame'[c] = current_frame[c]
        /\ \A t \in Threads :
              (threads[c][t].pc = "write" /\ threads'[c][t].pc = "count") =>
                  current_frame'[c] = threads[c][t].frame

\* C28: producer/consumer decoupling.  The slot holds one frame, which a write
\* replaces and a read leaves in place; every frame the capture thread has fetched
\* is published (or a later one is), whatever the readers do: whether the frame in
\* the slot was ever read, whether the reader has stopped reading or keeps reading.
C28_Decoupling ==
    /\ [][SlotStep]_vars
    /\ \A k \in 1..MaxFrames : InHand(Cam, k) ~> current_frame[Cam] >= k

C28_Witness ==
    /\ current_frame[Cam] = 2
    /\ Unread(Cam, 1) /\ Unread(Cam, 2)
    /\ InHand(Cam, 3)
    /\ readers[Cam][Poller].pc = "locked"

(***************************************************************************)
(* SpecCancelFair: a backend of either kind under a fair scheduler, polled *)
(* by one caller and released at any time.                                 *)
(*   - the capture thread keeps being scheduled (WF on its steps): each    *)
(*     step of an iteration is bounded (subprocess.run has timeout=2, the  *)
(*     pipe read ends when the subprocess is terminated);                  *)
(*   - it gets frame_lock if it keeps asking for it (SF);                  *)
(*   - a read() that holds frame_lock returns (WF).                        *)
(***************************************************************************)
NextCancel ==
    \/ \E outcome \in {"ok", "fail", "died"} : Start(Cam, outcome) /\ CaptureOnly
    \/ ProcessExits(Cam) /\ CaptureOnly
    \/ \E t \in Threads : ThreadCheck(Cam, t) /\ CaptureOnly
    \/ \E t \in Threads : CaptureOk(Cam, t) /\ CaptureOnly
    \/ \E t \in Threads : CaptureFail(Cam, t) /\ CaptureOnly
    \/ \E t \in Threads : CaptureRaise(Cam, t) /\ CaptureOnly
    \/ \E t \in Threads : ThreadAcquire(Cam, t) /\ CaptureOnly
    \/ \E t \in Threads : ThreadWrite(Cam, t) /\ CaptureOnly
    \/ \E t \in Threads : ThreadCount(Cam, t) /\ CaptureOnly
    \/ \E t \in Threads : ThreadSleep(Cam, t) /\ CaptureOnly
    \/ ReadAcquire(Cam, Poller) /\ CaptureOnly
    \/ ReadReturn(Cam, Poller) /\ CaptureOnly
    \/ ReleaseBegin(Cam) /\ CaptureOnly
    \/ \E timed_out \in BOOLEAN : ReleaseEnd(Cam, timed_out) /\ CaptureOnly

SpecCancelFair ==
    /\ InitCapture
    /\ [][NextCancel]_vars
    /\ \A t \in Threads : WF_vars(ThreadStep(Cam, t) /\ CaptureOnly)
    /\ \A t \in Threads : SF_vars(ThreadAcquire(Cam, t) /\ CaptureOnly)
    /\ WF_vars(ReadReturn(Cam, Poller) /\ CaptureOnly)

\* release() has cleared the running flag of a started backend
Cancelled(c) == start_calls[c] > 0 /\ ~running[c]

\* After the flag is cleared no new iteration begins, and an iteration publishes
\* once at most: only the step from "write" changes the slot, and from there the
\* thread goes on to the loop condition.
CancelStep ==
    \A c \in Cameras, t \in Threads :
        /\ (threads[c][t].pc # "capture" /\ threads'[c][t].pc = "capture") => running[c]
        /\ current_frame'[c] # current_frame[c] =>
              \E u \in Threads : threads[c][u].pc = "write" /\ threads'[c][u].pc = "count"
        /\ threads[c][t].pc = "count" => threads'[c][t].pc \in {"count", "pace", "check"}
        /\ threads[c][t].pc \in {"pace", "backoff"} =>
              threads'[c][t].pc \in {threads[c][t].pc, "check"}

\* C29: cooperative cancellation terminates.  Once release() has cleared the
\* running flag the capture loop exits: it finishes the iteration it is in, which
\* publishes one further frame at most, begins no new one, and then ends - also
\* when the flag is cleared while the loop is in the middle of a capture.
C29_CancellationTerminates ==
    /\ [][CancelStep]_vars
    /\ \A c \in Cameras : Cancelled(c) ~> (LiveThreads(c) = {})

C29_Witness ==
    \E t \in Threads :
        /\ variant[Cam] = "vid"
        /\ Cancelled(Cam)
        /\ process[Cam] = "dead"
        /\ threads[Cam][t].pc = "capture"
        /\ current_frame[Cam] # NoFrame

\* The step is the return of a release() call on backend c
ReleaseReturns(c) == release_pc[c] = "join" /\ release_pc'[c] = "idle"

\* The release() that returns was called on a backend that an earlier release()
\* had already torn down, or on which no capture thread was ever started (start()
\* not called, or failed before starting one)
AlreadyStopped(c) ==
    \/ ~temp_dir[c]
    \/ \A t \in Threads : threads[c][t].pc = "unborn"

\* C30 as claimed: backend close is idempotent.  When release() returns on a
\* backend that was already released, never started or failed to start, the
\* backend is stopped: isOpened() is false, there is no capture thread and no
\* subprocess.
C30_CloseIdempotent ==
    [][\A c \in Cameras :
          (ReleaseReturns(c) /\ AlreadyStopped(c)) =>
              /\ ~IsOpened(c)'
              /\ LiveThreads(c)' = {}
              /\ process'[c] # "alive"]_vars

(***************************************************************************)
(* SpecRestart: a backend of either kind whose start() may be called again *)
(* by whoever holds it, before or after release().                         *)
(***************************************************************************)
NextRestart ==
    \/ \E outcome \in {"ok", "fail", "died"} : StartCall(Cam, outcome) /\ CaptureOnly
    \/ ProcessExits(Cam) /\ CaptureOnly
    \/ \E t \in Threads : ThreadCheck(Cam, t) /\ CaptureOnly
    \/ \E t \in Threads : CaptureOk(Cam, t) /\ CaptureOnly
    \/ \E t \in Threads : CaptureFail(Cam, t) /\ CaptureOnly
    \/ \E t \in Threads : CaptureRaise(Cam, t) /\ CaptureOnly
    \/ \E t \in Threads : ThreadAcquire(Cam, t) /\ CaptureOnly
    \/ \E t \in Threads : ThreadWrite(Cam, t) /\ CaptureOnly
    \/ \E t \in Threads : ThreadCount(Cam, t) /\ CaptureOnly
    \/ \E t \in Threads : ThreadSleep(Cam, t) /\ CaptureOnly
    \/ ReadAcquire(Cam, Poller) /\ CaptureOnly
    \/ ReadReturn(Cam, Poller) /\ CaptureOnly
    \/ ReleaseBegin(Cam) /\ CaptureOnly
    \/ \E timed_out \in BOOLEAN : ReleaseEnd(Cam, timed_out) /\ CaptureOnly

SpecRestart == InitCapture /\ [][NextRestart]_vars

\* C31 as claimed: single live session per camera.  Whatever start() and
\* release() calls are made, a backend has at most one capture thread alive: a
\* second start() on a started backend does not add a second capture loop.
C31_SingleSession ==
    \A c \in Cameras : Cardinality(LiveThreads(c)) <= 1

(***************************************************************************)
(* SpecTwoWorkers: the two libcamera-still backends a CameraManager starts *)
(* on a Raspberry Pi, with cameras that deliver a frame on every capture.  *)
(* Each backend has its own capture thread; the threads run side by side.  *)
(***************************************************************************)
InitTwoWorkers == MotionIdle /\ CaptureIdle /\ ManagerIdle /\ AppIdle

NextTwoWorkers ==
    \/ \E c \in Cameras : Start(c, "ok") /\ CaptureOnly
    \/ \E c \in Cameras, t \in Threads : ThreadCheck(c, t) /\ CaptureOnly
    \/ \E c \in Cameras, t \in Threads : CaptureOk(c, t) /\ CaptureOnly
    \/ \E c \in Cameras, t \in Threads : ThreadAcquire(c, t) /\ CaptureOnly
    \/ \E c \in Cameras, t \in Threads : ThreadWrite(c, t) /\ CaptureOnly
    \/ \E c \in Cameras, t \in Threads : ThreadCount(c, t) /\ CaptureOnly
    \/ \E c \in Cameras, t \in Threads : ThreadSleep(c, t) /\ CaptureOnly

SpecTwoWorkers == InitTwoWorkers /\ [][NextTwoWorkers]_vars

\* C32 as claimed: worker pacing parity.  With both backends started and every
\* capture succeeding, both cameras are available and the frame counters of the
\* two capture loops differ by at most one, however many iterations have run.
C32_PacingParity ==
    (\A c \in Cameras : Started(c)) =>
        /\ \A c \in Cameras : IsOpened(c)
        /\ \A a, b \in Cameras : frame_count[a] - frame_count[b] <= 1

\* The last-motion timestamp get_camera_stats reports for camera c
LastMotion(c) == Get(last_motion_times, c, 0)

\* C33 as claimed: update_config changes only the config and the background
\* models.  With no reset in between, every step - update_config and every
\* process_frame call after it - keeps each camera's recorded events (the log
\* stays below its cap here), never lowers its frame counter and never moves its
\* last-motion timestamp back.
C33_UpdateKeepsHistory ==
    [][\A c \in Cameras :
          /\ Recorded(EventLog(c)) \subseteq Recorded(EventLog(c)')
          /\ FramesProcessed(c)' >= FramesProcessed(c)
          /\ LastMotion(c)' >= LastMotion(c)]_vars

(***************************************************************************)
(* SpecContours: _analyze_contours applied to masks with up to MaxRegions  *)
(* regions, under configs whose cap on inspected regions is 1 or the      *)
(* default, and process_frame on frames with up to two regions.            *)
(***************************************************************************)
\* Region areas below the noise floor, at the noise floor, at the default threshold
AnalysisAreas == {MinContourArea - 1, MinContourArea, DefaultThreshold}

RECURSIVE SeqsUpTo(_, _)
SeqsUpTo(S, n) ==
    IF n = 0 THEN {<<>>}
    ELSE LET shorter == SeqsUpTo(S, n - 1) IN
         shorter \cup {Append(s, a) : s \in shorter, a \in S}

AnalysisConfigs ==
    { MotionConfig(t, DefaultCooldown, MinContourArea, cap, "mog2_a") :
        t \in Thresholds, cap \in {1, MaxContoursToCheck} }

AnalysisFrames ==
    {[kind |-> "ok", contours |-> cs, shape |-> FrameShape] : cs \in SeqsUpTo(AnalysisAreas, 2)}

\* self._analyze_contours(fg_mask) on a mask whose regions have the given areas
Analyze(contours) ==
    /\ last_call' = [op |-> "_analyze_contours", contours |-> contours,
                     result |-> AnalyzeContours(config, contours)]
    /\ UNCHANGED <<now, config, bg_subtractors, last_motion_times, motion_events,
                   frame_counts>>

InitContours ==
    /\ now = StartTime
    /\ config \in AnalysisConfigs
    /\ bg_subtractors = EmptyDict
    /\ last_motion_times = EmptyDict
    /\ motion_events = EmptyDict
    /\ frame_counts = EmptyDict
    /\ last_call = NoCall
    /\ CaptureIdle
    /\ ManagerIdle
    /\ AppIdle

NextContours ==
    \/ \E cs \in SeqsUpTo(AnalysisAreas, MaxRegions) : Analyze(cs) /\ MotionOnly
    \/ \E f \in AnalysisFrames : FewFrames(Cam) /\ ProcessFrame(Cam, f) /\ MotionOnly

SpecContours == InitContours /\ [][NextContours]_vars

\* The reference: the positions kept are those among the first
\* max_contours_to_check whose region is at least min_contour_area
KeptPositions(cfg, contours) ==
    {i \in 1..Len(contours) :
        i <= cfg.max_contours_to_check /\ contours[i] >= cfg.min_contour_area}

LargestKept(cfg, contours) ==
    LET areas == {contours[i] : i \in KeptPositions(cfg, contours)} IN
    IF areas = {} THEN 0 ELSE CHOOSE a \in areas : \A b \in areas : b <= a

Larger(a, b) == IF a >= b THEN a ELSE b

AnalysisMatchesReference ==
    last_call.op = "_analyze_contours" =>
        LET kept == KeptPositions(config, last_call.contours)
            largest == LargestKept(config, last_call.contours)
        IN /\ last_call.result.count = Cardinality(kept)
           /\ last_call.result.largest_area = largest
           /\ last_call.result.motion_detected = (kept # {} /\ largest >= config.threshold)

\* An event recorded in this step has at least one region and a largest region of
\* at least the threshold and at least the noise floor
EventStep ==
    \A c \in Cameras :
        (last_call'.op = "process_frame" /\ last_call'.camera_id = c /\ last_call'.ret) =>
            LET event == EventLog(c)'[Len(EventLog(c)')] IN
            /\ event.contour_count >= 1
            /\ event.contour_count = Cardinality(KeptPositions(config, last_call'.frame.contours))
            /\ event.largest_contour_area = LargestKept(config, last_call'.frame.contours)
            /\ event.largest_contour_area >= Larger(config.threshold, config.min_contour_area)

\* C34: contour analysis against a reference.  _analyze_contours inspects the first
\* max_contours_to_check regions, keeps those of at least min_contour_area, and
\* reports their number, their largest area (0 when none is kept) and motion
\* exactly when one is kept and the largest is at least the threshold; every event
\* recorded has contour_count >= 1 and largest_contour_area >= max(threshold,
\* min_contour_area).
C34_ContourAnalysis == []AnalysisMatchesReference /\ [][EventStep]_vars

C34_Witness ==
    /\ last_call.op = "_analyze_contours"
    /\ config.max_contours_to_check = 1
    /\ config.threshold = DefaultThreshold
    /\ last_call.contours = <<MinContourArea, DefaultThreshold>>
    /\ last_call.result.count = 1
    /\ last_call.result.largest_area = MinContourArea
    /\ ~last_call.result.motion_detected

StrictlyIncreasing(log) ==
    \A i \in 1..Len(log) : i < Len(log) => log[i].timestamp < log[i + 1].timestamp

NoSince == [given |-> FALSE, t |-> 0]

Since(t) == [given |-> TRUE, t |-> t]

SinceValues == {NoSince} \cup {Since(t) : t \in Times}

\* within_seconds of was_motion_detected
Windows == 0..1

\* "events after this timestamp", as the docstring words it
EventsSince_After(events, since) ==
    IF since.given
    THEN SelectSeq(events, LAMBDA event : event.timestamp > since.t)
    ELSE events

\* [event for event in events if event.timestamp >= since_timestamp]
EventsSince(events, since) ==
    IF since.given
    THEN SelectSeq(events, LAMBDA event : event.timestamp >= since.t)
    ELSE events

\* A query writes nothing but the record of the call
Query(call) ==
    /\ last_call' = call
    /\ UNCHANGED <<now, config, bg_subtractors, last_motion_times, motion_events,
                   frame_counts>>

WasMotionDetected(camera_id, within_seconds) ==
    Query([op |-> "was_motion_detected", camera_id |-> camera_id,
           within_seconds |-> within_seconds,
           ret |-> (now - Get(last_motion_times, camera_id, 0)) <= within_seconds])

GetMotionEvents(camera_id, since) ==
    Query([op |-> "get_motion_events", camera_id |-> camera_id, since |-> since,
           ret |-> EventsSince(Get(motion_events, camera_id, <<>>), since)])

GetCameraStats(camera_id) ==
    Query([op |-> "get_camera_stats", camera_id |-> camera_id,
           ret |-> [frames_processed |-> Get(frame_counts, camera_id, 0),
                    motion_events_count |-> Len(Get(motion_events, camera_id, <<>>)),
                    last_motion_timestamp |-> Get(last_motion_times, camera_id, 0),
                    has_background_subtractor |-> camera_id \in DOMAIN bg_subtractors,
                    is_in_cooldown |-> IsInCooldown(camera_id, now)]])

(***************************************************************************)
(* Specification SpecQueries: frames for two cameras at the default        *)
(* configuration, resets, and the three queries in between.                *)
(***************************************************************************)
InitQueries == MotionInit /\ config \in DetectorConfigs /\ CaptureIdle /\ ManagerIdle
    /\ AppIdle

\* An empty scene, one region at the threshold
QueryFrames == {f \in ProbeFrames : f.kind = "ok"}

NextQueries ==
    \/ Tick /\ MotionOnly
    \/ \E c \in Cameras, f \in QueryFrames : FewFramesInAll /\ ProcessFrame(c, f) /\ MotionOnly
    \/ \E c \in Cameras : ResetCamera(c) /\ MotionOnly
    \/ \E c \in Cameras, w \in Windows : WasMotionDetected(c, w) /\ MotionOnly
    \/ \E c \in Cameras, since \in SinceValues : GetMotionEvents(c, since) /\ MotionOnly
    \/ \E c \in Cameras : GetCameraStats(c) /\ MotionOnly

SpecQueries == InitQueries /\ [][NextQueries]_vars

Queries == {"was_motion_detected", "get_motion_events", "get_camera_stats"}

\* The camera has no entry in any of the detector's dictionaries
NeverSeen(c) ==
    /\ c \notin DOMAIN bg_subtractors
    /\ c \notin DOMAIN last_motion_times
    /\ c \notin DOMAIN motion_events
    /\ c \notin DOMAIN frame_counts

\* The positions of the log whose event is at or after since
PositionsSince(log, since) ==
    {i \in 1..Len(log) : since.given => log[i].timestamp >= since.t}

\* ret holds the events of log at the positions P, in the order of the log
IsSelection(ret, log, P) ==
    /\ Len(ret) = Cardinality(P)
    /\ \A i \in P : ret[Cardinality({j \in P : j <= i})] = log[i]

\* A query leaves the detector's state as it was
QueryStep ==
    last_call'.op \in Queries =>
        UNCHANGED <<config, bg_subtractors, last_motion_times, motion_events, frame_counts>>

\* What the last query returned, against the state it was asked in (a query does
\* not change that state)
QueryAnswer ==
    /\ last_call.op = "get_motion_events" =>
           /\ IsSelection(last_call.ret, EventLog(last_call.camera_id),
                          PositionsSince(EventLog(last_call.camera_id), last_call.since))
           /\ Chronological(last_call.ret)
    /\ (last_call.op = "get_camera_stats" /\ NeverSeen(last_call.camera_id)) =>
           /\ last_call.ret.frames_processed = 0
           /\ last_call.ret.motion_events_count = 0
           /\ ~last_call.ret.has_background_subtractor
           /\ ~last_call.ret.is_in_cooldown

HeadlessConstruct(opens) ==
    /\ main_thread = "none"
    /\ Construct(opens, FALSE)
    /\ main_thread' = IF mgr' = "ready" THEN "constructed" ELSE "exited"
    /\ UNCHANGED <<app_running, monitor_thread, frames>>

\* start(): self.running = True; the monitor thread is created and started
HeadlessStart ==
    /\ main_thread = "constructed"
    /\ app_running' = TRUE
    /\ monitor_thread' = "test"
    /\ main_thread' = "waiting"
    /\ UNCHANGED frames

\* _monitor_loop: "while self.running:"
MonitorTest ==
    /\ monitor_thread = "test"
    /\ monitor_thread' = IF app_running THEN "read" ELSE "dead"
    /\ UNCHANGED <<app_running, frames, main_thread>>

\* _monitor_loop: frames = self.camera_manager.read_frames()
MonitorRead(outcomes) ==
    /\ monitor_thread = "read"
    /\ ReadFrames(outcomes)
    /\ frames' = mgr_call'.ret
    /\ monitor_thread' = "process_critter"
    /\ UNCHANGED <<app_running, main_thread>>

\* The monitor thread is about to handle the frame of camera c
Handling(c) ==
    monitor_thread = (IF c = "critter_cam" THEN "process_critter" ELSE "process_nut")

\* _monitor_loop, one camera's block: process_frame on the frame if there is one,
\* _log_motion_event when it reported motion; an exception out of the block ends
\* the iteration in the except clause, which sleeps and loops.
MonitorProcess(c, f, log_throws) ==
    /\ Handling(c)
    /\ IF frames[c] # "None"
       THEN /\ FewFramesInAll
            /\ ProcessFrame(c, f)
            /\ log_throws => last_call'.ret
       ELSE /\ ~log_throws
            /\ UNCHANGED motion_vars
    /\ monitor_thread' = IF c = "critter_cam" /\ ~log_throws THEN "process_nut" ELSE "sleep"
    /\ UNCHANGED <<app_running, frames, main_thread>>

\* _monitor_loop: time.sleep(0.033), or time.sleep(1) in the except clause
MonitorSleep ==
    /\ monitor_thread = "sleep"
    /\ monitor_thread' = "test"
    /\ UNCHANGED <<app_running, frames, main_thread>>

\* threading.Thread.is_alive() of the monitor thread
MonitorAlive == monitor_thread \notin {"none", "dead"}

\* stop(), first statement: self.running = False.  Reached from signal_handler
\* while main() waits, and again by any later call.
StopBegin ==
    /\ main_thread \in {"waiting", "stopped"}
    /\ release_calls < MaxReleases
    /\ app_running' = FALSE
    /\ main_thread' = "join"
    /\ UNCHANGED <<monitor_thread, frames>>

\* stop(): "if hasattr(self, 'monitor_thread') and self.monitor_thread.is_alive():
\*              self.monitor_thread.join(timeout=5)"
\* join returns when the thread has ended, or after five seconds with the thread
\* still alive.
StopJoin(timed_out) ==
    /\ main_thread = "join"
    /\ timed_out = MonitorAlive
    /\ main_thread' = "release"
    /\ UNCHANGED <<app_running, monitor_thread, frames>>

\* stop(): "if self.camera_manager: self.camera_manager.release()", then the final
\* statistics, read with get_camera_stats
StopRelease(outcomes) ==
    /\ main_thread = "release"
    /\ Release("release", outcomes)
    /\ main_thread' = "stopped"
    /\ UNCHANGED <<app_running, monitor_thread, frames>>

\* signal_handler: sys.exit(0) after stop().  SystemExit passes the except clauses
\* of main(); its finally block tests 'nutflix_app' in locals(), and nutflix_app is
\* a global of main(), so stop() is not called there.  The daemon monitor thread
\* ends with the process.
HeadlessExit ==
    /\ main_thread = "stopped"
    /\ main_thread' = "exited"
    /\ monitor_thread' = "dead"
    /\ UNCHANGED <<app_running, frames>>

(***************************************************************************)
(* SpecHeadless: one NutflixHeadless application from construction to      *)
(* exit, its monitor thread, the cameras' first frames, and stop() called  *)
(* up to MaxReleases times.                                                *)
(***************************************************************************)
InitHeadless ==
    /\ MotionIdle
    /\ CaptureIdle
    /\ ManagerInit
    /\ has_callback
    /\ AppIdle

\* What the cameras see: a scene with one region at the threshold
SceneFrames == {f \in QueryFrames : f.contours # <<>>}

\* Steps of the application leave the capture backends' own model and the video
\* stream alone
StreamIdle == UNCHANGED <<generator, consecutive_failures, yielded, failed_run>>

MainStep == UNCHANGED <<motion_vars, capture_vars>> /\ StreamIdle

NextHeadless ==
    \/ \E opens \in [Cameras -> BOOLEAN] : HeadlessConstruct(opens) /\ MainStep
    \/ HeadlessStart /\ UNCHANGED manager_vars /\ MainStep
    \/ \E c \in Cameras : FrameArrives(c) /\ UNCHANGED <<motion_vars, capture_vars, app_vars>>
    \/ MonitorTest /\ UNCHANGED manager_vars /\ MainStep
    \/ \E outcomes \in [Cameras -> ReadOutcomes] : MonitorRead(outcomes) /\ MainStep
    \/ \E c \in Cameras, f \in SceneFrames, log_throws \in BOOLEAN :
           MonitorProcess(c, f, log_throws)
               /\ UNCHANGED <<capture_vars, manager_vars>> /\ StreamIdle
    \/ MonitorSleep /\ UNCHANGED manager_vars /\ MainStep
    \/ StopBegin /\ UNCHANGED manager_vars /\ MainStep
    \/ \E timed_out \in BOOLEAN : StopJoin(timed_out) /\ UNCHANGED manager_vars /\ MainStep
    \/ \E outcomes \in [Cameras -> ReleaseOutcomes] : StopRelease(outcomes) /\ MainStep
    \/ HeadlessExit /\ UNCHANGED manager_vars /\ MainStep

SpecHeadless == InitHeadless /\ [][NextHeadless]_vars

\* CameraManager.release() has been entered
ReleaseBegun == release_calls > 0

\* The step is the monitor thread's read_frames() call
MonitorReadsFrames == monitor_thread = "read" /\ monitor_thread' # "read"

\* The step is the monitor thread's process_frame call on a frame it holds
MonitorProcessesFrame ==
    \E c \in Cameras : Handling(c) /\ frames[c] # "None" /\ ~Handling(c)'

\* A stop() call begins in this step
StopEntered == main_thread # "join" /\ main_thread' = "join"

StopStep ==
    /\ StopEntered => ~app_running'
    /\ ReleaseBegun => ~MonitorReadsFrames /\ ~MonitorProcessesFrame

StopSafe ==
    /\ mgr_call.op = "release" => ~mgr_call.raised
    /\ \A c \in Cameras : release_ops[c] <= 1

\* C37 as claimed: stop() clears the running flag; once the release of the
\* camera manager has begun the monitor thread makes no read_frames() call and
\* runs process_frame on no frame; repeated stop() calls raise nothing and
\* release each camera once.
C37_ShutdownOrdering == []StopSafe /\ [][StopStep]_vars

(***************************************************************************)
(* video_feed(camera_name) of web/dashboard/app.py and its generator       *)
(* generate_frames().                                                      *)
(*   generator: "none" (no request), "refused" (404 / 503), "created",     *)
(*              "suspended" (at a yield), "done" (returned), "closed"      *)
(*              (the server closed it at a yield: the client went away)    *)
(***************************************************************************)
\* max_failures = 50
max_failures == 50

\* What camera_manager.get_latest_frame(camera_name) does in an iteration: JPEG
\* bytes, None, or an exception
StreamOutcomes == {"frame", "none", "throws"}

\* a counter of failed iterations that a served frame leaves as it is
FailuresAfter_NoReset(n, outcome) == IF outcome = "frame" THEN n ELSE n + 1

\* "consecutive_failures = 0" with a frame, "consecutive_failures += 1" in the
\* else branch and in the except clause
FailuresAfter(n, outcome) == IF outcome = "frame" THEN 0 ELSE n + 1

\* The multipart parts an iteration yields: the frame, the placeholder of the else
\* branch, or the error placeholder of the except clause
PartsOf(outcome) ==
    IF outcome = "frame" THEN <<"frame">>
    ELSE IF outcome = "none" THEN <<"placeholder">>
    ELSE <<"error_placeholder">>

\* video_feed: 404 for an unknown camera name, 503 without a camera manager or
\* when the camera is not available, else a Response over generate_frames()
VideoFeed(camera_name, has_manager, available) ==
    /\ generator = "none"
    /\ generator' = IF camera_name \in Cameras /\ has_manager /\ available
                    THEN "created" ELSE "refused"
    /\ UNCHANGED <<consecutive_failures, yielded, failed_run>>

\* The generator has been created and has not ended
StreamOpen == generator \in {"created", "suspended"}

\* One iteration of "while consecutive_failures < max_failures", up to its yield
StreamIterate(outcome) ==
    /\ StreamOpen
    /\ consecutive_failures < max_failures
    /\ consecutive_failures' = FailuresAfter(consecutive_failures, outcome)
    /\ yielded' = PartsOf(outcome)
    /\ failed_run' = IF outcome = "frame" THEN 0 ELSE failed_run + 1
    /\ generator' = "suspended"

\* The loop condition fails: the generator logs and returns
StreamReturn ==
    /\ StreamOpen
    /\ ~(consecutive_failures < max_failures)
    /\ generator' = "done"
    /\ yielded' = <<>>
    /\ UNCHANGED <<consecutive_failures, failed_run>>

\* The client disconnects: the server closes the generator at its yield
\* (GeneratorExit is not an Exception, the except clause lets it pass)
StreamClose ==
    /\ generator = "suspended"
    /\ generator' = "closed"
    /\ UNCHANGED <<consecutive_failures, yielded, failed_run>>

(***************************************************************************)
(* SpecStreamFair: one video_feed request and the iterations of its        *)
(* generator; a generator whose loop condition has failed returns.         *)
(***************************************************************************)
InitStream == MotionIdle /\ CaptureIdle /\ ManagerIdle /\ AppIdle

StreamOnly ==
    UNCHANGED <<motion_vars, capture_vars, manager_vars, app_running, monitor_thread,
                frames, main_thread>>

NextStream ==
    \/ \E camera_name \in CameraNames, has_manager \in BOOLEAN, available \in BOOLEAN :
           VideoFeed(camera_name, has_manager, available) /\ StreamOnly
    \/ \E outcome \in StreamOutcomes : StreamIterate(outcome) /\ StreamOnly
    \/ StreamReturn /\ StreamOnly
    \/ StreamClose /\ StreamOnly

SpecStreamFair ==
    InitStream /\ [][NextStream]_vars /\ WF_vars(StreamReturn /\ StreamOnly)

\* The step is an iteration of the generator
Iterates ==
    /\ generator' = "suspended"
    /\ <<yielded, failed_run, generator>>' # <<yielded, failed_run, generator>>

StreamSafe ==
    /\ generator = "suspended" => Len(yielded) = 1
    /\ yielded = <<"frame">> => consecutive_failures = 0
    /\ consecutive_failures = failed_run
    /\ generator = "done" => failed_run = max_failures

StreamStep ==
    /\ Iterates => Len(yielded') = 1 /\ failed_run < max_failures
    /\ (Iterates /\ yielded' = <<"frame">>) => consecutive_failures' = 0
    /\ generator' = "done" => failed_run = max_failures

\* max_failures iterations in a row have failed
StreamExhausted == StreamOpen /\ failed_run = max_failures

\* C38: the failure budget of the MJPEG stream.  Every iteration of the frame
\* generator yields exactly one part (the frame or a placeholder); a served
\* frame resets the consecutive-failure counter to 0; the generator returns
\* only when 50 iterations in a row have failed, so never while frames keep
\* arriving, and once 50 in a row have failed it makes no further iteration
\* and ends.
C38_FailureBudget ==
    /\ []StreamSafe
    /\ [][StreamStep]_vars
    /\ StreamExhausted ~> generator \in {"done", "closed"}

C38_Witness ==
    /\ generator = "done"
    /\ failed_run = max_failures
    /\ consecutive_failures = max_failures

====
